---------------------------- MODULE Spec2Model ----------------------------
(***************************************************************************)
(* Bloomfall: the evolutionary simulation core.                           *)
(*                                                                         *)
(*   Genetic         src/src/world/entities/neuralnetwork/genetique.js     *)
(*   NeuralNetwork   src/unnamed/part_007 (NeuralNetwork.js)               *)
(*   Creature        src/src/world/entities/neuralnetwork/creature.js      *)
(*   CreatureSystem  src/src/world/entities/neuralnetwork/CreatureSystem.js*)
(*                                                                         *)
(* Reals are fixed-point integers.  Genes and Math.random() results are    *)
(* in hundredths; positions in hundredths of a world unit; energy in       *)
(* 1/100000; network activations in thousandths.                           *)
(* Arrays are 1-based sequences; the code's 0-based indices are kept as    *)
(* values and shifted by one only where a sequence is indexed.             *)
(***************************************************************************)
EXTENDS Integers, Sequences, FiniteSets

VARIABLES
    \* ---- Genetic
    populationSize,   \* Genetic.populationSize (= config.populationSize)
    geneCount,        \* Genetic.geneCount
    individuals,      \* Genetic.individuals: records [genes] or [genes, fitness]
    generation,       \* Genetic.generation
    scratch,          \* a gene array held by a caller of mutate()
    lastGen,          \* what the last Genetic.nextGeneration call was given and drew
    thrown,           \* TRUE once a handler has thrown
    \* ---- CreatureSystem
    foodCount,        \* config.foodCount
    terrain,          \* the terrain collaborator (its biome map)
    creatures,        \* CreatureSystem.creatures, each with its Creature (logic)
    foods,            \* CreatureSystem.foods
    ticks,            \* update(dt) calls made on the current creatures
    lastOp,           \* the last handler run, with what it did
    \* ---- NeuralNetwork
    arrays,           \* the heap of weight arrays: a row holds numbers, a matrix
                      \* holds the identities of its rows; identity = position
    networks,         \* the NeuralNetwork objects built so far
    genomes,          \* the { w1, w2 } objects returned by exportGenome
    nnLast,           \* the last NeuralNetwork operation, with its answer and
                      \* what it gave console.error
    writes,           \* host writes into weight arrays made
    \* ---- the host (main.js): two callbacks on one event loop
    animPc,           \* where the animate() callback stands ("idle": not on the stack)
    clickPc,          \* where the Next Gen click handler stands
    loopAt,           \* the creature update()'s forEach is about to visit (from 1)
    pass,             \* the running update pass: its dt, draws made, items eaten
    clicks,           \* button presses made, and those not yet handled
    host,             \* BloomfallScene: generationElapsed, currentGeneration
    \* ---- a caller of Genetic's operators
    opCall,           \* the last call made, with its arguments and its result
    \* ---- two CreatureSystems built side by side
    twins,            \* the two systems, each with its config and its population
    \* ---- the brains of the creatures
    brains            \* brains[k]: the NeuralNetwork of creature number k

genVars == <<populationSize, geneCount, individuals, generation, scratch, lastGen, thrown>>
sysVars == <<foodCount, terrain, creatures, foods, ticks, lastOp>>

nnVars == <<arrays, networks, genomes, nnLast, writes>>

hostVars == <<animPc, clickPc, loopAt, pass, clicks, host>>

opVars == <<opCall>>

sideVars == <<twins, brains>>

vars == <<genVars, sysVars, nnVars, hostVars, opVars, sideVars>>

---------------------------------------------------------------------------
(* Bounds of the model *)

MaxGeneration == 2
MaxMutateCalls == 2
MaxSysGeneration == 1
MaxTicks == 1

(* Configurations of the runs *)

\* populationSize
PopulationSizes == {0, 1, 2}
\* geneCount given to a Genetic built on its own
GeneCounts == {1, 2}
\* foodCount
FoodCounts == {0, 1}

(* Fixed-point scales *)

\* A gene, and a Math.random() result, of 1.0
GeneScale == 100

Min(a, b) == IF a < b THEN a ELSE b
Max(a, b) == IF a > b THEN a ELSE b

---------------------------------------------------------------------------
(* Math.random(): the values one call may return, and the finite streams   *)
(* of consecutive results a handler may see (repeated cyclically).         *)

RandValues == {0, 50, 75}

Streams ==
    {<<a>> : a \in RandValues} \cup {<<a, b>> : a \in RandValues, b \in RandValues}

\* the k-th (0-based) Math.random() result of stream s
Rnd(s, k) == s[(k % Len(s)) + 1]

\* Math.floor(Math.random() * n)
RndIndex(s, k, n) == (Rnd(s, k) * n) \div GeneScale

---------------------------------------------------------------------------
(* Genetic (genetique.js) *)

\* array[i] for a 0-based index i
At(arr, i) == arr[i + 1]

\* Genetic.initRandom: populationSize individuals of geneCount draws each;
\* the objects pushed are { genes } and carry no fitness property.
InitRandom(P, GC, s) ==
    [i \in 1..P |-> [genes |-> [g \in 1..GC |-> Rnd(s, (i - 1) * GC + (g - 1))]]]

\* mutant: the cut is rounded up, so it ranges over 0..geneCount
CrossoverCutCeil(GC, r) == (r * GC + GeneScale - 1) \div GeneScale

\* Genetic.crossover for the cut drawn from random result r:
\* cut = floor(r * geneCount); child[i] = i < cut ? a[i] : b[i]
CrossoverCut(GC, r) == (r * GC) \div GeneScale

\* mutant: the gene at the cut comes from a
CrossoverCutFromA(a, b, GC, r) ==
    [i \in 1..GC |-> IF (i - 1) <= CrossoverCut(GC, r) THEN a[i] ELSE b[i]]

\* mutant: the loop takes b's genes before the cut and a's from the cut on
CrossoverAtSwapped(a, b, GC, cut) ==
    [i \in 1..GC |-> IF (i - 1) < cut THEN b[i] ELSE a[i]]

\* the loop of crossover for a given cut: child.push(i < cut ? a[i] : b[i])
CrossoverAt(a, b, GC, cut) ==
    [i \in 1..GC |-> IF (i - 1) < cut THEN a[i] ELSE b[i]]

Crossover(a, b, GC, r) == CrossoverAt(a, b, GC, CrossoverCut(GC, r))

\* delta = (Math.random() - 0.5) * 2 * amount
MutateDelta(r, amount) == ((r - (GeneScale \div 2)) * 2 * amount) \div GeneScale

\* mutant: the upper clamp is missing
Clamp01NoUpper(v) == Max(0, v)

\* out[i] = Math.min(1, Math.max(0, out[i] + delta))
Clamp01(v) == Min(GeneScale, Max(0, v))

\* Genetic.mutate, from gene i (1-based) on, reading the stream from call k.
\* A second draw is made only for a gene that mutates.  Yields the array and
\* the number of draws made so far.
RECURSIVE MutateFrom(_, _, _, _, _, _)
MutateFrom(out, i, rate, amount, s, k) ==
    IF i > Len(out) THEN [genes |-> out, k |-> k]
    ELSE IF Rnd(s, k) < rate
         THEN MutateFrom([out EXCEPT ![i] = Clamp01(out[i] + MutateDelta(Rnd(s, k + 1), amount))],
                         i + 1, rate, amount, s, k + 2)
         ELSE MutateFrom(out, i + 1, rate, amount, s, k + 1)

Mutate(genes, rate, amount, s, k) == MutateFrom(genes, 1, rate, amount, s, k)

\* The arrays of a call live in a heap, a sequence of arrays; an array is
\* known by its place in the heap, so two names of one array see the same
\* writes and two arrays of equal content stay apart.

\* mutant: slice hands back the array it was called on
SliceArrayShares(heap, id) == [heap |-> heap, id |-> id]

\* arr.slice(): a new array, with the content of array id
SliceArray(heap, id) == [heap |-> Append(heap, heap[id]), id |-> Len(heap) + 1]

\* mutant: mutate writes into the array it was given and returns it
MutateArrayInPlace(heap, genes, rate, amount, s, k) ==
    LET m == MutateFrom(heap[genes], 1, rate, amount, s, k)
    IN [heap |-> [heap EXCEPT ![genes] = m.genes], out |-> genes, k |-> m.k]

\* Genetic.mutate(genes, rate, amount) on the heap, reading the stream from
\* call k: "const out = genes.slice()", the writes to out[i], "return out"
MutateArray(heap, genes, rate, amount, s, k) ==
    LET c == SliceArray(heap, genes)
        m == MutateFrom(c.heap[c.id], 1, rate, amount, s, k)
    IN [heap |-> [c.heap EXCEPT ![c.id] = m.genes], out |-> c.id, k |-> m.k]

\* the rate and amount nextGeneration passes to mutate (0.08, 0.12)
NextGenMutationRate == 8
NextGenMutationAmount == 12

\* the number of random parents drawn when nobody was selected
FallbackParents == 3

\* mutant: the fallback draws two parents
SelOrFallbackTwo(inds, sel, s) ==
    IF Len(sel) = 0
    THEN [i \in 1..2 |-> RndIndex(s, i - 1, Len(inds))]
    ELSE sel

\* sel after "if (sel.length === 0) for (i<3) sel.push(floor(random * individuals.length))"
SelOrFallback(inds, sel, s) ==
    IF Len(sel) = 0
    THEN [i \in 1..FallbackParents |-> RndIndex(s, i - 1, Len(inds))]
    ELSE sel

\* draws made by the fallback
FallbackDraws(sel) == IF Len(sel) = 0 THEN FallbackParents ELSE 0

\* mutant: the loop runs while newPop.length <= populationSize
RECURSIVE FillPopulationOneMore(_, _, _, _, _, _)
FillPopulationOneMore(newPop, pool, P, GC, s, k) ==
    IF ~(Len(newPop.ids) <= P) THEN newPop
    ELSE LET A == newPop.heap[At(pool, RndIndex(s, k, Len(pool)))]
             B == newPop.heap[At(pool, RndIndex(s, k + 1, Len(pool)))]
             child == Append(newPop.heap, Crossover(A, B, GC, Rnd(s, k + 2)))
             m == MutateArray(child, Len(child), NextGenMutationRate,
                              NextGenMutationAmount, s, k + 3)
         IN FillPopulationOneMore([heap |-> m.heap, ids |-> Append(newPop.ids, m.out)],
                 pool, P, GC, s, m.k)

\* the while loop of nextGeneration: children until newPop.length >= populationSize.
\* newPop is the heap and the arrays pushed so far, pool the arrays of the
\* parents; the child crossover builds is a new array, and so is the one
\* mutate returns
RECURSIVE FillPopulation(_, _, _, _, _, _)
FillPopulation(newPop, pool, P, GC, s, k) ==
    IF ~(Len(newPop.ids) < P) THEN newPop
    ELSE LET A == newPop.heap[At(pool, RndIndex(s, k, Len(pool)))]
             B == newPop.heap[At(pool, RndIndex(s, k + 1, Len(pool)))]
             child == Append(newPop.heap, Crossover(A, B, GC, Rnd(s, k + 2)))
             m == MutateArray(child, Len(child), NextGenMutationRate,
                              NextGenMutationAmount, s, k + 3)
         IN FillPopulation([heap |-> m.heap, ids |-> Append(newPop.ids, m.out)],
                 pool, P, GC, s, m.k)

\* Genetic.nextGeneration(selectedIndices): sel is Array.from(selectedIndices).
\* Reading individuals[i].genes for an i outside the array throws a TypeError
\* before anything is assigned.
NextGenerationThrows(inds, sel, s) ==
    \E j \in 1..Len(SelOrFallback(inds, sel, s)) :
        ~(SelOrFallback(inds, sel, s)[j] \in 0..(Len(inds) - 1))

\* the population built, the indices of the pool, the draw of the elite, and
\* the arrays of the call: when nextGeneration is entered the genes of
\* individual j (1-based) are array j of the heap, pool holds the arrays
\* "this.individuals[i].genes" of the parents, and ids the arrays of newPop in
\* the order they were pushed, "elite.slice()" first
NextGenerationPop(inds, P, GC, sel, s) ==
    LET sel2 == SelOrFallback(inds, sel, s)
        k0 == FallbackDraws(sel)
        heap == [j \in 1..Len(inds) |-> inds[j].genes]
        pool == [j \in 1..Len(sel2) |-> sel2[j] + 1]
        eliteIdx == RndIndex(s, k0, Len(pool))
        first == SliceArray(heap, At(pool, eliteIdx))
        newPop == FillPopulation([heap |-> first.heap, ids |-> <<first.id>>],
                                 pool, P, GC, s, k0 + 1)
    IN [individuals |-> [j \in 1..Len(newPop.ids) |-> [genes |-> newPop.heap[newPop.ids[j]]]],
        pool |-> sel2,
        elite |-> eliteIdx,
        heap |-> newPop.heap,
        ids |-> newPop.ids]

\* what the while loop of nextGeneration does for each child after the n
\* arrays already in newPop: the parents drawn (as indices of the pool), the
\* cut, the child crossover returned, the number of Math.random() calls made
\* before mutate is entered and the array mutate returned
RECURSIVE ChildrenFrom(_, _, _, _, _, _, _)
ChildrenFrom(log, n, pool, P, GC, s, k) ==
    IF ~(n < P) THEN log
    ELSE LET a == RndIndex(s, k, Len(pool))
             b == RndIndex(s, k + 1, Len(pool))
             child == Crossover(At(pool, a), At(pool, b), GC, Rnd(s, k + 2))
             m == Mutate(child, NextGenMutationRate, NextGenMutationAmount, s, k + 3)
         IN ChildrenFrom(Append(log, [a |-> a, b |-> b,
                                      cut |-> CrossoverCut(GC, Rnd(s, k + 2)),
                                      child |-> child, k |-> k + 3, out |-> m.genes]),
                         n + 1, pool, P, GC, s, m.k)

\* the children of one nextGeneration call, in the order they are pushed
NextGenerationChildren(inds, P, GC, sel, s) ==
    LET sel2 == SelOrFallback(inds, sel, s)
        pool == [j \in 1..Len(sel2) |-> At(inds, sel2[j]).genes]
    IN ChildrenFrom(<<>>, 1, pool, P, GC, s, FallbackDraws(sel) + 1)

\* no NeuralNetwork has been built
NoNetworks ==
    /\ arrays = <<>>
    /\ networks = <<>>
    /\ genomes = <<>>
    /\ nnLast = [op |-> "none"]
    /\ writes = 0

\* no operator has been called
NoOpCall == opCall = [op |-> "none"]

\* no pair of systems has been built and no creature has a brain on record
NoSide ==
    /\ twins = <<>>
    /\ brains = <<>>

\* no BloomfallScene has been built
NoHost ==
    /\ animPc = "idle"
    /\ clickPc = "idle"
    /\ loopAt = 0
    /\ pass = [dt |-> 0, k |-> 0, eaten |-> <<>>]
    /\ clicks = [made |-> 0, pending |-> 0]
    /\ host = [generationElapsed |-> 0, currentGeneration |-> 1]

\* no CreatureSystem has been built
NoSystem ==
    /\ foodCount = 0
    /\ terrain = "plains"
    /\ creatures = <<>>
    /\ foods = <<>>
    /\ ticks = 0
    /\ lastOp = [op |-> "none"]

---------------------------------------------------------------------------
(* The Genetic class driven on its own: constructor, nextGeneration with    *)
(* any selection, and mutate called on a caller's array.  mutate reads and  *)
(* writes nothing of the Genetic object, so a run either chains mutate      *)
(* calls or advances generations; the two are not interleaved.              *)

\* no nextGeneration call yet
NoGen == [calls |-> 0]

\* Array.from(a Set of indices below n), in ascending insertion order
RECURSIVE SetToSeq(_)
SetToSeq(S) ==
    IF S = {} THEN <<>>
    ELSE LET m == CHOOSE x \in S : \A y \in S : x <= y
         IN <<m>> \o SetToSeq(S \ {m})

Selections(n) == {SetToSeq(S) : S \in SUBSET (0..(n - 1))}

\* rates and amounts a caller may pass to mutate (hundredths)
MutateRates == {0, 8, 100}
MutateAmounts == {0, 12, 200}

\* new Genetic(populationSize, geneCount)
GeneticInit ==
    /\ populationSize \in PopulationSizes
    /\ geneCount \in GeneCounts
    /\ \E s \in Streams : individuals = InitRandom(populationSize, geneCount, s)
    /\ generation = 0
    /\ \E s \in Streams : scratch = [calls |-> 0, genes |-> [g \in 1..geneCount |-> Rnd(s, g - 1)]]
    /\ lastGen = NoGen
    /\ thrown = FALSE
    /\ NoSystem
    /\ NoNetworks
    /\ NoHost
    /\ NoOpCall
    /\ NoSide

\* the assignments of Genetic.nextGeneration(sel) under stream s
GeneticNextGenerationStep(sel, s) ==
    IF NextGenerationThrows(individuals, sel, s)
    THEN /\ thrown' = TRUE
         /\ lastGen' = [calls |-> lastGen.calls + 1, given |-> sel, threw |-> TRUE]
         /\ UNCHANGED <<individuals, generation>>
    ELSE LET r == NextGenerationPop(individuals, populationSize, geneCount, sel, s)
         IN /\ individuals' = r.individuals
            /\ generation' = generation + 1
            /\ lastGen' = [calls |-> lastGen.calls + 1, given |-> sel, threw |-> FALSE,
                           pool |-> r.pool, elite |-> r.elite, heap |-> r.heap, ids |-> r.ids,
                                 before |-> individuals]
            /\ UNCHANGED thrown

GeneticNextGeneration ==
    /\ lastGen.calls < MaxGeneration
    /\ scratch.calls = 0
    /\ \E sel \in Selections(Len(individuals)), s \in Streams :
          GeneticNextGenerationStep(sel, s)
    /\ UNCHANGED <<populationSize, geneCount, scratch>>
    /\ UNCHANGED sysVars
    /\ UNCHANGED <<nnVars, hostVars, opVars, sideVars>>

\* out = genetic.mutate(out, rate, amount) on the caller's array
GeneticMutate ==
    /\ scratch.calls < MaxMutateCalls
    /\ generation = 0
    /\ \E rate \in MutateRates, amount \in MutateAmounts, s \in Streams :
          scratch' = [calls |-> scratch.calls + 1,
                      genes |-> Mutate(scratch.genes, rate, amount, s, 0).genes]
    /\ UNCHANGED <<populationSize, geneCount, individuals, generation, lastGen, thrown>>
    /\ UNCHANGED sysVars
    /\ UNCHANGED <<nnVars, hostVars, opVars, sideVars>>

GeneticNext == GeneticNextGeneration \/ GeneticMutate

SpecGenetic == GeneticInit /\ [][GeneticNext]_vars

---------------------------------------------------------------------------
(* Creature (creature.js) *)

\* a network output of 1.0 (tanh lies in [-1, 1])
OutScale == 1000
\* one world unit, in position units
PosScale == 100
\* energy of 1.0, in energy units
EnergyScale == 100000

\* a / b truncated toward zero (b > 0)
DivT(a, b) == IF a >= 0 THEN a \div b ELSE -((-a) \div b)

Abs(a) == IF a >= 0 THEN a ELSE -a

\* a * (m / 1000) for m >= 0, without leaving 32 bits
MulMilli(a, m) == a * (m \div 1000) + DivT(a * (m % 1000), 1000)

\* Math.sin on [0, pi/2] in millionths, tabulated every 0.02 rad
SinTable ==
    <<
      0, 19999, 39989, 59964, 79915, 99833, 119712, 139543,
      159318, 179030, 198669, 218230, 237703, 257081, 276356, 295520,
      314567, 333487, 352274, 370920, 389418, 407760, 425939, 443948,
      461779, 479426, 496880, 514136, 531186, 548024, 564642, 581035,
      597195, 613117, 628793, 644218, 659385, 674288, 688921, 703279,
      717356, 731146, 744643, 757843, 770739, 783327, 795602, 807558,
      819192, 830497, 841471, 852108, 862404, 872355, 881958, 891207,
      900100, 908633, 916803, 924606, 932039, 939099, 945784, 952090,
      958016, 963558, 968715, 973485, 977865, 981854, 985450, 988652,
      991458, 993868, 995881, 997495, 998710, 999526, 999942, 999958
    >>

\* the table read at a (1/10000 rad, 0 <= a <= pi/2), interpolated linearly and
\* rounded to the nearest thousandth; within 0.6 thousandth of Math.sin
Interpolate(tab, a) ==
    LET i == a \div 200
        f == a % 200
    IN (tab[i + 1] * 200 + (tab[i + 2] - tab[i + 1]) * f + 100000) \div 200000

\* Math.sin and Math.cos in thousandths, for an angle in 1/10000 rad: the
\* angle is reduced to [0, 2 pi) (62832), then to the first quarter (15708)
Sin(a) ==
    LET m == a % 62832
    IN IF m <= 15708 THEN Interpolate(SinTable, m)
       ELSE IF m <= 31416 THEN Interpolate(SinTable, 31416 - m)
       ELSE IF m <= 47124 THEN -Interpolate(SinTable, m - 31416)
       ELSE -Interpolate(SinTable, 62832 - m)

Cos(a) == Sin(a + 15708)

\* the energy a Creature is built with (100)
InitialEnergy == 100 * EnergyScale

\* new Creature(genes): the physical state; the brain is a fresh NeuralNetwork
\* (5, 4, 2) whose outputs are an input of each update
NewCreature(genes) ==
    [genes |-> genes, energy |-> InitialEnergy, speed |-> 0, angle |-> 0,
     x |-> 0, y |-> 0,
     distanceFood |-> 0, distanceWall |-> 0, speedX |-> 0, speedY |-> 0]

\* energy -= 0.02 + Math.abs(speed) * 0.002   (speed in 1/100000)
EnergyCost(speed) == (2 * EnergyScale) \div 100 + (Abs(speed) * 2) \div 1000

\* angle += outputs[0] * 0.1, in 1/10000 rad
TurnStep(out0) == (out0 * 1000) \div OutScale

\* speed += outputs[1] * 0.01, in 1/100000
SpeedStep(out1) == (out1 * 1000) \div OutScale

\* mutant: the speed is held below 0.02
CreatureUpdateCapsSpeed(l, dt, outputs) ==
    LET angle == l.angle + TurnStep(outputs[1])
        speed == Min(2000, l.speed + SpeedStep(outputs[2]))
        vx == DivT(Cos(angle) * speed, 1000)
        vy == DivT(Sin(angle) * speed, 1000)
    IN [l EXCEPT !.angle = angle,
                 !.speed = speed,
                 !.x = l.x + DivT(MulMilli(vx, dt), 1000),
                 !.y = l.y + DivT(MulMilli(vy, dt), 1000),
                 !.speedX = vx,
                 !.speedY = vy,
                 !.energy = l.energy - EnergyCost(speed)]

\* Creature.update(dt) with outputs = brain.compute(sensors); dt in thousandths
CreatureUpdate(l, dt, outputs) ==
    LET angle == l.angle + TurnStep(outputs[1])
        speed == l.speed + SpeedStep(outputs[2])
        vx == DivT(Cos(angle) * speed, 1000)
        vy == DivT(Sin(angle) * speed, 1000)
    IN [l EXCEPT !.angle = angle,
                 !.speed = speed,
                 !.x = l.x + DivT(MulMilli(vx, dt), 1000),
                 !.y = l.y + DivT(MulMilli(vy, dt), 1000),
                 !.speedX = vx,
                 !.speedY = vy,
                 !.energy = l.energy - EnergyCost(speed)]

---------------------------------------------------------------------------
(* CreatureSystem (CreatureSystem.js) *)

\* config.worldSize
WorldSize == 200
\* "const halfSize = (worldSize / 2) - 2"
ClampMargin == 2
\* "const range = worldSize / 2 - 10"
SpawnMargin == 10
\* "attempt < 15"
MaxAttempts == 15
\* "target.dist < 1.5", in position units
PickupRadius == 150
\* "logic.distanceFood = target ? target.dist : 100", in position units
NoFoodDistance == 10000
\* "creatureObj.logic.energy += 30"
EatBonus == 30 * EnergyScale
\* "logic.update(dt * 20)"
TickFactor == 20
\* "new Genetic(this.config.populationSize, 10)"
CreatureGeneCount == 10

HalfSize == (WorldSize \div 2 - ClampMargin) * PosScale
SpawnRange == (WorldSize \div 2 - SpawnMargin) * PosScale

\* (Math.random() - 0.5) * 2 * range
RandomCoord(r) == ((r - GeneScale \div 2) * 2 * SpawnRange) \div GeneScale

\* terrainGenerator.getBiomeAt for the three biome maps of the model: all
\* plains, mountains west of x = 0, mountains everywhere
BiomeAt(t, x, z) ==
    IF t = "peaks" THEN "mountain"
    ELSE IF t = "ridge" /\ x < 0 THEN "mountain"
    ELSE IF t = "ridge" /\ z < 0 THEN "transition"
    ELSE "plains"

\* mutant: one more sample is allowed
KeepSamplingOneMore(biome, attempt) == biome = "mountain" /\ attempt < MaxAttempts + 1

\* "while (biome === 'mountain' && attempt < 15)", attempt counting the
\* samples taken so far
KeepSampling(biome, attempt) == biome = "mountain" /\ attempt < MaxAttempts

\* the do-while of getRandomPositionOnTerrain, reading the stream from call k
RECURSIVE SampleTerrain(_, _, _, _)
SampleTerrain(t, s, k, attempt) ==
    LET x == RandomCoord(Rnd(s, k))
        z == RandomCoord(Rnd(s, k + 1))
        biome == BiomeAt(t, x, z)
    IN IF KeepSampling(biome, attempt + 1)
       THEN SampleTerrain(t, s, k + 2, attempt + 1)
       ELSE [x |-> x, z |-> z, k |-> k + 2, attempts |-> attempt + 1, biome |-> biome]

GetRandomPositionOnTerrain(t, s, k) == SampleTerrain(t, s, k, 0)

\* spawnFood(count): count active items at sampled positions
RECURSIVE SpawnFoodFrom(_, _, _, _, _)
SpawnFoodFrom(fs, t, count, s, k) ==
    IF ~(Len(fs) < count) THEN fs
    ELSE LET pos == GetRandomPositionOnTerrain(t, s, k)
         IN SpawnFoodFrom(Append(fs, [x |-> pos.x, z |-> pos.z, active |-> TRUE]),
                          t, count, s, pos.k)

SpawnFood(t, count, s) == SpawnFoodFrom(<<>>, t, count, s, 0)

\* createGeneration: one record per individual, in order, at a sampled position
RECURSIVE CreateCreaturesFrom(_, _, _, _, _)
CreateCreaturesFrom(cs, t, inds, s, k) ==
    IF Len(cs) = Len(inds) THEN cs
    ELSE LET index == Len(cs)
             pos == GetRandomPositionOnTerrain(t, s, k)
             creature == [NewCreature(At(inds, index).genes) EXCEPT !.x = pos.x, !.y = pos.z]
         IN CreateCreaturesFrom(
                Append(cs, [logic |-> creature, index |-> index, fitness |-> 0, visible |-> TRUE]),
                t, inds, s, pos.k)

CreateGenerationCreatures(t, inds, s) == CreateCreaturesFrom(<<>>, t, inds, s, 0)

\* createGeneration's "ind.fitness = 0" on every individual
CreateGenerationIndividuals(inds) ==
    [i \in 1..Len(inds) |-> [genes |-> inds[i].genes, fitness |-> 0]]

\* Math.sqrt, rounded down
RECURSIVE SqrtBetween(_, _, _)
SqrtBetween(n, lo, hi) ==
    IF lo = hi THEN lo
    ELSE LET mid == (lo + hi + 1) \div 2
         IN IF mid * mid <= n THEN SqrtBetween(n, mid, hi) ELSE SqrtBetween(n, lo, mid - 1)

Sqrt(n) == SqrtBetween(n, 0, 4 * HalfSize)

\* squared distance from food item f to (x, z)
Dist2(f, x, z) == (f.x - x) * (f.x - x) + (f.z - z) * (f.z - z)

\* the scan of getNearestFood from item i (0-based): inactive items are
\* skipped and a later item wins only when strictly nearer, "d < bestDist" on
\* the doubles.  Two items on one point give the same double.  Two items on
\* different points whose distances read the same give doubles a rounding
\* error apart, either way round: tie is the item whose double is the
\* smallest of those that read the same, -1 when it is the first of them.
RECURSIVE NearestFrom(_, _, _, _, _, _)
NearestFrom(fs, x, z, i, bestIdx, tie) ==
    LET f == At(fs, i)
        best == At(fs, bestIdx)
        nearer == \/ Dist2(f, x, z) < Dist2(best, x, z)
                  \/ /\ Dist2(f, x, z) = Dist2(best, x, z)
                     /\ i = tie
                     /\ <<f.x, f.z>> # <<best.x, best.z>>
    IN IF ~(i < Len(fs)) THEN bestIdx
       ELSE IF ~f.active THEN NearestFrom(fs, x, z, i + 1, bestIdx, tie)
       ELSE IF bestIdx = -1 \/ nearer
            THEN NearestFrom(fs, x, z, i + 1, i, tie)
            ELSE NearestFrom(fs, x, z, i + 1, bestIdx, tie)

\* getNearestFood(x, z): null (found = FALSE) or { dist, index }
GetNearestFood(fs, x, z, tie) ==
    LET idx == NearestFrom(fs, x, z, 0, -1, tie)
    IN IF idx = -1 THEN [found |-> FALSE]
       ELSE [found |-> TRUE, index |-> idx,
             d2 |-> Dist2(At(fs, idx), x, z),
             dist |-> Sqrt(Dist2(At(fs, idx), x, z))]

\* "target && target.dist < 1.5" on the double Math.sqrt returned.  A distance
\* that reads exactly 1.5 is a double a rounding error to either side of 1.5
\* (from (45.9, 1.2) to (45, 0) it is 1.4999999999999991, from (0.9, 1.2) to
\* (0, 0) it is 1.5): the creatures in near are those whose double is below
\* 1.5 when it reads 1.5
WithinPickup(target, i, near) ==
    /\ target.found
    /\ \/ target.d2 < PickupRadius * PickupRadius
       \/ target.d2 = PickupRadius * PickupRadius /\ i \in near

\* mutant: only the lower border holds the creature back
ClampToArenaLowerOnly(v) == Max(-HalfSize, v)

\* Math.max(-halfSize, Math.min(halfSize, v))
ClampToArena(v) == Max(-HalfSize, Min(HalfSize, v))

\* mutant: the consumed item is not made active again
FoodLeftInactive(f, newPos) == [x |-> newPos.x, z |-> newPos.z, active |-> FALSE]

\* eatFood on the item: deactivated, moved to newPos, reactivated
FoodAfterEat(f, newPos) == [x |-> newPos.x, z |-> newPos.z, active |-> TRUE]

\* mutant: the consumption lowers the fitness
CreatureAfterEatLosesFitness(c) ==
    [c EXCEPT !.logic.energy = c.logic.energy + EatBonus, !.fitness = c.fitness - 1]

\* mutant: the bonus is 3 instead of 30
CreatureAfterEatSmallBonus(c) ==
    [c EXCEPT !.logic.energy = c.logic.energy + 3 * EnergyScale, !.fitness = c.fitness + 1]

\* eatFood on the creature record: energy += 30, fitness += 1
CreatureAfterEat(c) ==
    [c EXCEPT !.logic.energy = c.logic.energy + EatBonus, !.fitness = c.fitness + 1]

\* mutant: the Individual's fitness is not written
EatFoodForgetsIndividual(st, t, foodIndex, i, s) ==
    LET c == CreatureAfterEat(st.creatures[i])
        newPos == GetRandomPositionOnTerrain(t, s, st.k)
        f == At(st.foods, foodIndex)
    IN [st EXCEPT
          !.creatures[i] = c,
          !.foods[foodIndex + 1] = FoodAfterEat(f, newPos),
          !.k = newPos.k,
          !.eaten = Append(st.eaten, [creature |-> c.index, food |-> foodIndex,
                                      from |-> <<f.x, f.z>>, to |-> <<newPos.x, newPos.z>>])]

\* mutant: the consumed item stays where it was
EatFoodLeavesItem(st, t, foodIndex, i, s) ==
    LET c == CreatureAfterEat(st.creatures[i])
        newPos == GetRandomPositionOnTerrain(t, s, st.k)
        f == At(st.foods, foodIndex)
    IN [st EXCEPT
          !.creatures[i] = c,
          !.individuals[c.index + 1] = [genes |-> st.individuals[c.index + 1].genes,
                                        fitness |-> c.fitness],
          !.k = newPos.k,
          !.eaten = Append(st.eaten, [creature |-> c.index, food |-> foodIndex,
                                      from |-> <<f.x, f.z>>, to |-> <<newPos.x, newPos.z>>])]

\* eatFood(foodIndex, creatureObj) on the pass state st, for the creature at
\* position i of the array; the new position is drawn from call st.k on
EatFood(st, t, foodIndex, i, s) ==
    LET c == CreatureAfterEat(st.creatures[i])
        newPos == GetRandomPositionOnTerrain(t, s, st.k)
        f == At(st.foods, foodIndex)
    IN [st EXCEPT
          !.creatures[i] = c,
          !.individuals[c.index + 1] = [genes |-> st.individuals[c.index + 1].genes,
                                        fitness |-> c.fitness],
          !.foods[foodIndex + 1] = FoodAfterEat(f, newPos),
          !.k = newPos.k,
          !.eaten = Append(st.eaten, [creature |-> c.index, food |-> foodIndex,
                                      from |-> <<f.x, f.z>>, to |-> <<newPos.x, newPos.z>>])]

\* "if (logic.energy <= 0) mesh.visible = false" on a double.  0.02 is no
\* binary fraction, so an energy that reads 0 in 1/100000 is a double a
\* rounding error to either side of 0 (100 less 5000 times 0.02 is 2.75e-12,
\* not 0): a negative reading is <= 0, a positive one is not, and the
\* creatures in nonpos are those whose double is <= 0 when it reads 0
Exhausted(energy, i, nonpos) == energy < 0 \/ (energy = 0 /\ i \in nonpos)

\* mutant: the nearest item is looked up after the move and the clamp
UpdateCreatureReadsAfterMove(st, t, i, dt, outputs, s) ==
    LET c == st.creatures[i]
        seen == GetNearestFood(st.foods, c.logic.x, c.logic.y, st.tie)
        sensed == [c.logic EXCEPT !.distanceFood =
                      IF seen.found THEN seen.dist ELSE NoFoodDistance]
        moved == CreatureUpdate(sensed, dt * TickFactor, outputs)
        clamped == [moved EXCEPT !.x = ClampToArena(moved.x), !.y = ClampToArena(moved.y)]
        target == GetNearestFood(st.foods, clamped.x, clamped.y, st.tie)
        st1 == [st EXCEPT !.creatures[i].logic = clamped]
        st2 == IF WithinPickup(target, i, st.near)
               THEN EatFood(st1, t, target.index, i, s) ELSE st1
    IN [st2 EXCEPT !.creatures[i].visible =
                      IF Exhausted(st2.creatures[i].logic.energy, i, st.nonpos)
                      THEN FALSE ELSE c.visible]

\* mutant: a creature within reach consumes twice in its turn
UpdateCreatureEatsTwice(st, t, i, dt, outputs, s) ==
    LET c == st.creatures[i]
        target == GetNearestFood(st.foods, c.logic.x, c.logic.y, st.tie)
        sensed == [c.logic EXCEPT !.distanceFood =
                      IF target.found THEN target.dist ELSE NoFoodDistance]
        moved == CreatureUpdate(sensed, dt * TickFactor, outputs)
        clamped == [moved EXCEPT !.x = ClampToArena(moved.x), !.y = ClampToArena(moved.y)]
        st1 == [st EXCEPT !.creatures[i].logic = clamped]
        st2 == IF WithinPickup(target, i, st.near)
               THEN EatFood(EatFood(st1, t, target.index, i, s), t, target.index, i, s)
               ELSE st1
    IN [st2 EXCEPT !.creatures[i].visible =
                      IF Exhausted(st2.creatures[i].logic.energy, i, st.nonpos)
                      THEN FALSE ELSE c.visible]

\* the body of update's forEach for the creature at position i
UpdateCreature(st, t, i, dt, outputs, s) ==
    LET c == st.creatures[i]
        target == GetNearestFood(st.foods, c.logic.x, c.logic.y, st.tie)
        sensed == [c.logic EXCEPT !.distanceFood =
                      IF target.found THEN target.dist ELSE NoFoodDistance]
        moved == CreatureUpdate(sensed, dt * TickFactor, outputs)
        clamped == [moved EXCEPT !.x = ClampToArena(moved.x), !.y = ClampToArena(moved.y)]
        st1 == [st EXCEPT !.creatures[i].logic = clamped]
        st2 == IF WithinPickup(target, i, st.near)
               THEN EatFood(st1, t, target.index, i, s) ELSE st1
    IN [st2 EXCEPT !.creatures[i].visible =
                      IF Exhausted(st2.creatures[i].logic.energy, i, st.nonpos)
                      THEN FALSE ELSE c.visible]

\* the ways the turn of the creature at position i can go: one, or one for
\* each side of a threshold that the creature's readings fall on and one for
\* each item that can be its nearest (the first of the nearest items, or an
\* item on another point whose distance reads the same); picks keeps the
\* nearest item of each turn
TurnChoices(st, t, i, dt, outputs, s) ==
    LET c == st.creatures[i]
        x == c.logic.x
        z == c.logic.y
        first == NearestFrom(st.foods, x, z, 0, -1, -1)
        ties == IF first = -1 THEN {-1}
                ELSE {first} \cup
                     {w \in 0..(Len(st.foods) - 1) :
                         /\ At(st.foods, w).active
                         /\ Dist2(At(st.foods, w), x, z) = Dist2(At(st.foods, first), x, z)
                         /\ <<At(st.foods, w).x, At(st.foods, w).z>>
                               # <<At(st.foods, first).x, At(st.foods, first).z>>
                         /\ NearestFrom(st.foods, x, z, 0, -1, w) = w}
    IN UNION {LET target == GetNearestFood(st.foods, x, z, tie)
                  nears == IF target.found /\ target.d2 = PickupRadius * PickupRadius
                           THEN {st.near, st.near \cup {i}} ELSE {st.near}
              IN UNION {LET st1 == [st EXCEPT !.near = near, !.tie = tie,
                                              !.picks = Append(@, tie)]
                            r == UpdateCreature(st1, t, i, dt, outputs, s)
                        IN IF r.creatures[i].logic.energy = 0
                           THEN {r, UpdateCreature([st1 EXCEPT !.nonpos = @ \cup {i}],
                                                   t, i, dt, outputs, s)}
                           ELSE {r} : near \in nears} :
                 tie \in ties}

\* update(dt): the creatures in array order, each seeing the pool as the
\* creatures before it left it; the set of the states the pass can end in
RECURSIVE UpdateFrom(_, _, _, _, _, _)
UpdateFrom(st, t, i, dt, outs, s) ==
    IF i > Len(st.creatures) THEN {st}
    ELSE UNION {UpdateFrom(r, t, i + 1, dt, outs, s) :
                   r \in TurnChoices(st, t, i, dt, outs[i], s)}

UpdatePass(cs, fs, inds, t, dt, outs, s) ==
    UpdateFrom([creatures |-> cs, foods |-> fs, individuals |-> inds, k |-> 0, eaten |-> <<>>,
                nonpos |-> {}, near |-> {}, tie |-> -1, picks |-> <<>>],
               t, 1, dt, outs, s)

\* mutant: creatures that never ate are selected too
SelectedAlways(c) == c.fitness >= 0

\* mutant: one consumption is not enough to be selected
SelectedAboveOne(c) == c.fitness > 1

\* "if (c.fitness > 0) selection.add(c.index)"
Selected(c) == c.fitness > 0

\* nextGeneration's selection: the index of every creature with fitness > 0
RECURSIVE SelectionFrom(_, _)
SelectionFrom(cs, i) ==
    IF i > Len(cs) THEN <<>>
    ELSE (IF Selected(cs[i]) THEN <<cs[i].index>> ELSE <<>>) \o SelectionFrom(cs, i + 1)

Selection(cs) == SelectionFrom(cs, 1)

---------------------------------------------------------------------------
(* The CreatureSystem driven by its host: constructor, update(dt) and       *)
(* nextGeneration().                                                        *)

\* frame deltas the host may pass to update, in milliseconds
FrameDeltas == {50, 300000}

\* what a brain may answer in one update: a subset of [-1, 1] x [-1, 1]
BrainOutputs == {<<0, 0>>, <<OutScale, OutScale>>}

\* Math.random() streams seen by the Genetic calls made by the system
SysGeneStreams == {<<50>>, <<0, 75>>}

\* Math.random() streams seen by the position sampling of one handler
PosStreams == {<<50>>, <<75, 50, 50>>, <<0, 50, 75>>}

\* Math.random() streams seen by the relocations of one update
RelocationStreams == {<<50>>, <<0, 50, 75>>}

\* the biome maps of the runs
SysTerrains == {"ridge"}

\* new CreatureSystem(scene, terrainGenerator, {populationSize, foodCount}):
\* new Genetic(populationSize, 10), spawnFood, createGeneration
SysInitWith(Ps, Fs, Sg, Sf, Sc) ==
    /\ populationSize \in Ps
    /\ geneCount = CreatureGeneCount
    /\ foodCount \in Fs
    /\ terrain \in SysTerrains
    /\ \E sg \in Sg, sf \in Sf, sc \in Sc :
          LET inds == InitRandom(populationSize, geneCount, sg)
          IN /\ foods = SpawnFood(terrain, foodCount, sf)
             /\ creatures = CreateGenerationCreatures(terrain, inds, sc)
             /\ individuals = CreateGenerationIndividuals(inds)
    /\ generation = 0
    /\ scratch = [calls |-> 0, genes |-> <<>>]
    /\ lastGen = NoGen
    /\ thrown = FALSE
    /\ ticks = 0
    /\ lastOp = [op |-> "construct"]
    /\ NoNetworks
    /\ NoHost
    /\ NoOpCall
    /\ NoSide

SysInit == SysInitWith(PopulationSizes, FoodCounts, SysGeneStreams, PosStreams, PosStreams)

\* update(dt), for dt, the brains' answers and the stream drawn from the sets given
UpdateWith(Dts, Outs, Ss) ==
    /\ \E dt \in Dts, outs \in [1..Len(creatures) -> Outs], s \in Ss :
          \E r \in UpdatePass(creatures, foods, individuals, terrain, dt, outs, s) :
             /\ creatures' = r.creatures
             /\ foods' = r.foods
             /\ individuals' = r.individuals
             /\ lastOp' = [op |-> "update", eaten |-> r.eaten, outs |-> outs,
                           near |-> r.near]
    /\ ticks' = ticks + 1
    /\ UNCHANGED <<populationSize, geneCount, generation, scratch, lastGen, thrown,
                   foodCount, terrain>>
    /\ UNCHANGED <<nnVars, hostVars, opVars, sideVars>>

Update ==
    /\ ticks < MaxTicks
    /\ UpdateWith(FrameDeltas, BrainOutputs, RelocationStreams)

\* nextGeneration(): selection, Genetic.nextGeneration, createGeneration; a
\* throw inside Genetic.nextGeneration leaves the creatures as they were
NextGenerationWith(Sg, Sc) ==
    /\ \E sg \in Sg, sc \in Sc :
          \E sel \in {Selection(creatures)} :
             IF NextGenerationThrows(individuals, sel, sg)
             THEN /\ thrown' = TRUE
                  /\ lastGen' = [calls |-> lastGen.calls + 1, given |-> sel, threw |-> TRUE]
                  /\ UNCHANGED <<individuals, generation, creatures, ticks>>
             ELSE \E r \in {NextGenerationPop(individuals, populationSize, geneCount, sel, sg)} :
                     /\ generation' = generation + 1
                     /\ lastGen' = [calls |-> lastGen.calls + 1, given |-> sel, threw |-> FALSE,
                                    pool |-> r.pool, elite |-> r.elite, heap |-> r.heap, ids |-> r.ids,
                                 before |-> individuals]
                     /\ creatures' = CreateGenerationCreatures(terrain, r.individuals, sc)
                     /\ individuals' = CreateGenerationIndividuals(r.individuals)
                     /\ ticks' = 0
                     /\ UNCHANGED thrown
    /\ lastOp' = [op |-> "nextGeneration"]
    /\ UNCHANGED <<populationSize, geneCount, scratch, foodCount, terrain, foods>>
    /\ UNCHANGED <<nnVars, hostVars, opVars, sideVars>>

NextGeneration ==
    /\ lastGen.calls < MaxSysGeneration
    /\ NextGenerationWith(SysGeneStreams, PosStreams)

Next == Update \/ NextGeneration

Spec == SysInit /\ [][Next]_vars

---------------------------------------------------------------------------
(* A run without food: the system is built with foodCount = 0 and the host *)
(* alternates frames and generation changes.                                *)

\* generation changes of the run
ScenarioGenerations == 50

NoFoodInit == SysInitWith(PopulationSizes, {0}, {<<50>>}, {<<50>>}, PosStreams)

NoFoodUpdate ==
    /\ ticks < MaxTicks
    /\ UpdateWith({50}, BrainOutputs, {<<50>>})

NoFoodNextGeneration ==
    /\ lastGen.calls < ScenarioGenerations
    /\ NextGenerationWith({<<0, 75>>}, {<<75, 50, 50>>})

NoFoodNext == NoFoodUpdate \/ NoFoodNextGeneration

SpecNoFood == NoFoodInit /\ [][NoFoodNext]_vars

---------------------------------------------------------------------------
(* A run to exhaustion: one creature whose brain answers 0 stands still    *)
(* away from the only food item and pays 0.02 energy per frame.             *)

\* frames of the run; the energy of 100 is spent after 5000 of them
ExhaustTicks == 5002

ExhaustInit == SysInitWith({1}, {1}, {<<50>>}, {<<75, 50, 50>>}, {<<50>>})

ExhaustUpdate ==
    /\ ticks < ExhaustTicks
    /\ UpdateWith({50}, {<<0, 0>>}, {<<50>>})

ExhaustNext == ExhaustUpdate

SpecExhaust == ExhaustInit /\ [][ExhaustNext]_vars

---------------------------------------------------------------------------
(* NeuralNetwork: weights live in arrays with an identity, so that two     *)
(* objects holding the same array can be told from two equal copies.        *)
(* Weights, inputs and activations are in thousandths.                      *)

\* networks and genomes built in a run, and host writes made
MaxObjects == 3
MaxWrites == 1

\* (nbInput, nbHidden, nbOutput) given to the constructor
NetShapes == {<<1, 1, 2>>, <<2, 1, 1>>}

\* Math.random() streams seen by one constructor
WeightStreams == {<<0, 75, 50>>}

\* values of an input array, and the value a host writes into a weight
InputValues == {0, 1000}
HostWeights == {9000}

\* Math.random() * 4 - 2
RandomWeight(r) == r * 40 - 2000

\* Math.tanh on [0, 8.05] in millionths, tabulated every 0.05
TanhTable ==
    <<
      0, 49958, 99668, 148885, 197375, 244919, 291313, 336376,
      379949, 421899, 462117, 500520, 537050, 571670, 604368, 635149,
      664037, 691069, 716298, 739783, 761594, 781806, 800499, 817754,
      833655, 848284, 861723, 874053, 885352, 895693, 905148, 913785,
      921669, 928858, 935409, 941376, 946806, 951746, 956237, 960319,
      964028, 967395, 970452, 973226, 975743, 978026, 980096, 981973,
      983675, 985217, 986614, 987880, 989027, 990066, 991007, 991860,
      992632, 993330, 993963, 994536, 995055, 995524, 995949, 996334,
      996682, 996998, 997283, 997541, 997775, 997986, 998178, 998351,
      998508, 998650, 998778, 998894, 999000, 999095, 999181, 999259,
      999329, 999393, 999451, 999503, 999550, 999593, 999632, 999667,
      999699, 999727, 999753, 999777, 999798, 999817, 999835, 999850,
      999865, 999877, 999889, 999900, 999909, 999918, 999926, 999933,
      999939, 999945, 999950, 999955, 999959, 999963, 999967, 999970,
      999973, 999975, 999978, 999980, 999982, 999983, 999985, 999986,
      999988, 999989, 999990, 999991, 999992, 999993, 999993, 999994,
      999994, 999995, 999995, 999996, 999996, 999997, 999997, 999997,
      999998, 999998, 999998, 999998, 999998, 999998, 999999, 999999,
      999999, 999999, 999999, 999999, 999999, 999999, 999999, 999999,
      999999, 1000000, 1000000, 1000000, 1000000, 1000000, 1000000, 1000000,
      1000000, 1000000
    >>

\* Math.tanh(x), x and the result in millionths: the table interpolated on
\* three points (first and second difference), odd, 1 from 8 on; within 17
\* millionths of Math.tanh
Tanh(x) ==
    LET a == Abs(x)
        i == a \div 50000
        f == a % 50000
        d1 == TanhTable[i + 2] - TanhTable[i + 1]
        d2 == TanhTable[i + 3] - 2 * TanhTable[i + 2] + TanhTable[i + 1]
        v == IF a >= 8000000 THEN 1000000
             ELSE TanhTable[i + 1]
                  + (d1 * (f \div 100) + (d1 * (f % 100)) \div 100) \div 500
                  - (d2 * ((f * (50000 - f)) \div 50000)) \div 100000
    IN IF x >= 0 THEN v ELSE -v

\* a value in millionths to the nearest thousandth, the unit of the answers
Thousandths(v) == IF v >= 0 THEN (v + 500) \div 1000 ELSE -((500 - v) \div 1000)

\* sigmoid(x)
Sigmoid(x) == Tanh(x)

\* a new matrix with the given rows: the rows are allocated, then the array
\* that holds them
AllocMatrix(arr, rows) ==
    [arrays |-> arr \o rows \o <<[j \in 1..Len(rows) |-> Len(arr) + j]>>,
     id |-> Len(arr) + Len(rows) + 1]

\* Array.from({length: nRows}, () => Array.from({length: nCols}, random weight)),
\* from call k on of the stream
RandomRows(nRows, nCols, s, k) ==
    [j \in 1..nRows |->
        [c \in 1..nCols |-> RandomWeight(Rnd(s, k + (j - 1) * nCols + (c - 1)))]]

\* m[i][j] for the matrix with identity m (i, j from 0)
WeightAt(arr, m, i, j) == arr[arr[m][i + 1]][j + 1]

\* m.map(row => [...row]): the values of the rows
RowCopies(arr, m) == [j \in 1..Len(arr[m]) |-> arr[arr[m][j]]]

\* new NeuralNetwork(nbInput, nbHidden, nbOutput) without weights
NewRandomNetwork(arr, shape, s) ==
    LET nIn == shape[1] + 1
        a1 == AllocMatrix(arr, RandomRows(nIn, shape[2], s, 0))
        a2 == AllocMatrix(a1.arrays, RandomRows(shape[2], shape[3], s, nIn * shape[2]))
    IN [arrays |-> a2.arrays,
        net |-> [nbInput |-> nIn, nbHidden |-> shape[2], nbOutput |-> shape[3],
                 w1 |-> a1.id, w2 |-> a2.id]]

\* new NeuralNetwork(nbInput, nbHidden, nbOutput, weights)
NewNetworkFrom(shape, weights) ==
    [nbInput |-> shape[1] + 1, nbHidden |-> shape[2], nbOutput |-> shape[3],
     w1 |-> weights.w1, w2 |-> weights.w2]

\* exportGenome()
ExportGenome(arr, net) ==
    LET a1 == AllocMatrix(arr, RowCopies(arr, net.w1))
        a2 == AllocMatrix(a1.arrays, RowCopies(a1.arrays, net.w2))
    IN [arrays |-> a2.arrays, genome |-> [w1 |-> a1.id, w2 |-> a2.id]]

\* mutant: the fallback answer is one entry short
ZeroOutputsShort(n) == [k \in 1..(n - 1) |-> 0]

\* Array(nbOutput).fill(0)
ZeroOutputs(n) == [k \in 1..n |-> 0]

\* an inner loop of compute: the sum of layer[i] * m[i][col] from i on, in
\* whole units of the layer's values and thousandths of a unit; each product
\* of a value a and a weight w (in thousandths) is taken exactly
RECURSIVE WeightedSum(_, _, _, _, _)
WeightedSum(arr, layer, m, col, i) ==
    IF i >= Len(layer) THEN [whole |-> 0, frac |-> 0]
    ELSE LET a == layer[i + 1]
             w == WeightAt(arr, m, i, col)
             low == a * (w % 1000)
             rest == WeightedSum(arr, layer, m, col, i + 1)
         IN [whole |-> a * (w \div 1000) + low \div 1000 + rest.whole,
             frac |-> (low % 1000) + rest.frac]

\* compute(inputs): the answer, in thousandths, and what console.error was
\* given; inputs and weights in thousandths, the hidden layer in millionths
Compute(arr, net, inputs) ==
    IF Len(inputs) # net.nbInput - 1
    THEN [outputs |-> ZeroOutputs(net.nbOutput),
          errors |-> <<"Mauvais nombre d'inputs pour le reseau !">>]
    ELSE LET inputLayer == Append(inputs, 1000)
             \* a sum of thousandths, in millionths; tanh is 1 to the millionth
             \* from 8 on, and a sum beyond is held there
             HiddenSum(sum) ==
                 LET whole == sum.whole + sum.frac \div 1000
                 IN IF whole >= 8000 THEN 8000000
                    ELSE IF whole < -8000 THEN -8000000
                    ELSE whole * 1000 + (sum.frac % 1000)
             \* a sum of millionths, to the nearest millionth
             OutputSum(sum) == sum.whole + (sum.frac + 500) \div 1000
             hidden == [j \in 1..net.nbHidden |->
                           Sigmoid(HiddenSum(
                               WeightedSum(arr, inputLayer, net.w1, j - 1, 0)))]
         IN [outputs |-> [k \in 1..net.nbOutput |->
                             Thousandths(Sigmoid(OutputSum(
                                 WeightedSum(arr, hidden, net.w2, k - 1, 0))))],
             errors |-> <<>>]

\* the shape a genome was exported with, read off its matrices
GenomeShape(arr, g) ==
    <<Len(arr[g.w1]) - 1, Len(arr[g.w2]), Len(arr[arr[g.w2][1]])>>

\* the input arrays a host may pass to a network with n inputs: of the right
\* length, one short and one too long, filled with one value
InputArrays(n) ==
    {[i \in 1..len |-> v] : len \in {n - 1, n, n + 1}, v \in InputValues}

\* no Genetic object has been built
NoGenetic ==
    /\ populationSize = 0
    /\ geneCount = 0
    /\ individuals = <<>>
    /\ generation = 0
    /\ scratch = [calls |-> 0, genes |-> <<>>]
    /\ lastGen = NoGen
    /\ thrown = FALSE

NNInit ==
    /\ NoGenetic
    /\ NoSystem
    /\ NoNetworks
    /\ NoHost
    /\ NoOpCall
    /\ NoSide

NNNewNetwork ==
    /\ Len(networks) + Len(genomes) < MaxObjects
    /\ \E shape \in NetShapes, s \in WeightStreams :
          LET r == NewRandomNetwork(arrays, shape, s)
          IN /\ arrays' = r.arrays
             /\ networks' = Append(networks, r.net)
             /\ nnLast' = [op |-> "new", net |-> Len(networks) + 1]
    /\ UNCHANGED <<genomes, writes>>
    /\ UNCHANGED <<genVars, sysVars, hostVars, opVars, sideVars>>

NNNewNetworkFromGenome ==
    /\ Len(networks) + Len(genomes) < MaxObjects
    /\ \E g \in 1..Len(genomes) :
          /\ networks' = Append(networks,
                                NewNetworkFrom(GenomeShape(arrays, genomes[g]), genomes[g]))
          /\ nnLast' = [op |-> "newFrom", net |-> Len(networks) + 1, genome |-> g]
    /\ UNCHANGED <<arrays, genomes, writes>>
    /\ UNCHANGED <<genVars, sysVars, hostVars, opVars, sideVars>>

NNExportGenome ==
    /\ Len(networks) + Len(genomes) < MaxObjects
    /\ \E n \in 1..Len(networks) :
          LET r == ExportGenome(arrays, networks[n])
          IN /\ arrays' = r.arrays
             /\ genomes' = Append(genomes, r.genome)
             /\ nnLast' = [op |-> "exportGenome", net |-> n, genome |-> Len(genomes) + 1]
    /\ UNCHANGED <<networks, writes>>
    /\ UNCHANGED <<genVars, sysVars, hostVars, opVars, sideVars>>

\* the matrices a host can reach: those of the networks and of the genomes
HostMatrices ==
    {networks[n].w1 : n \in 1..Len(networks)} \cup {networks[n].w2 : n \in 1..Len(networks)}
    \cup {genomes[g].w1 : g \in 1..Len(genomes)} \cup {genomes[g].w2 : g \in 1..Len(genomes)}

\* the host assigns x.w1[0][0] = v or x.w2[0][0] = v
NNWriteWeight ==
    /\ writes < MaxWrites
    /\ \E m \in HostMatrices, v \in HostWeights :
          /\ arrays' = [arrays EXCEPT ![arrays[m][1]][1] = v]
          /\ nnLast' = [op |-> "write", matrix |-> m, value |-> v]
    /\ writes' = writes + 1
    /\ UNCHANGED <<networks, genomes>>
    /\ UNCHANGED <<genVars, sysVars, hostVars, opVars, sideVars>>

NNCompute ==
    /\ \E n \in 1..Len(networks) :
          \E inputs \in InputArrays(networks[n].nbInput - 1) :
             LET r == Compute(arrays, networks[n], inputs)
             IN nnLast' = [op |-> "compute", net |-> n, inputs |-> inputs,
                           outputs |-> r.outputs, errors |-> r.errors]
    /\ UNCHANGED <<arrays, networks, genomes, writes>>
    /\ UNCHANGED <<genVars, sysVars, hostVars, opVars, sideVars>>

NNNext ==
    \/ NNNewNetwork
    \/ NNNewNetworkFromGenome
    \/ NNExportGenome
    \/ NNWriteWeight
    \/ NNCompute

SpecNN == NNInit /\ [][NNNext]_vars

---------------------------------------------------------------------------
---------------------------------------------------------------------------
(* getRandomPositionOnTerrain called on its own, on each biome map and    *)
(* under each Math.random() stream.                                         *)

\* the biome maps of the calls: no mountain, mountains west of x = 0,
\* mountains everywhere
SamplingTerrains == {"plains", "ridge", "peaks"}

\* Math.random() streams of the calls: every stream of one to three draws
SamplingStreams ==
    UNION {[1..n -> RandValues] : n \in 1..3}

\* new CreatureSystem(scene, terrainGenerator, {populationSize: 0, foodCount: 0})
\* on one of the biome maps: new Genetic(0, 10), no food, no creature
SamplingInit ==
    /\ populationSize = 0
    /\ geneCount = CreatureGeneCount
    /\ individuals = <<>>
    /\ generation = 0
    /\ scratch = [calls |-> 0, genes |-> <<>>]
    /\ lastGen = NoGen
    /\ thrown = FALSE
    /\ foodCount = 0
    /\ terrain \in SamplingTerrains
    /\ creatures = <<>>
    /\ foods = <<>>
    /\ ticks = 0
    /\ lastOp = [op |-> "construct"]
    /\ NoNetworks
    /\ NoHost
    /\ NoOpCall
    /\ NoSide

\* pos = getRandomPositionOnTerrain()
SamplingCall ==
    /\ \E s \in SamplingStreams :
          lastOp' = [op |-> "sample", stream |-> s,
                     pos |-> GetRandomPositionOnTerrain(terrain, s, 0)]
    /\ UNCHANGED <<foodCount, terrain, creatures, foods, ticks>>
    /\ UNCHANGED <<genVars, nnVars, hostVars, opVars, sideVars>>

SamplingNext == SamplingCall

SpecSampling == SamplingInit /\ [][SamplingNext]_vars

---------------------------------------------------------------------------
(* A creature driven for several frames: one creature whose brain answers *)
(* anything from -1 to 1 on each frame.                                     *)

\* frames of the run
DriveTicks == 4

\* weighted sums reaching the two output neurons on a frame (thousandths);
\* four hidden activations in [-1, 1] under weights in [-2, 2] sum within 8
DriveSums == {<<-8000, -8000>>, <<0, 0>>, <<550, -550>>, <<8000, 8000>>}

\* what the brain answers on a frame: "outputs[k] = this.sigmoid(outputs[k])"
DriveOutputs ==
    {<<Thousandths(Sigmoid(p[1] * 1000)), Thousandths(Sigmoid(p[2] * 1000))>> :
        p \in DriveSums}

DriveInit == SysInitWith({1}, {1}, {<<50>>}, {<<75, 50, 50>>}, {<<50>>})

DriveUpdate ==
    /\ ticks < DriveTicks
    /\ UpdateWith(FrameDeltas, DriveOutputs, {<<50>>})

DriveNext == DriveUpdate

SpecDrive == DriveInit /\ [][DriveNext]_vars

---------------------------------------------------------------------------
(* A crowded spot: one or two creatures spawned on the same point, with    *)
(* two food items on that point or 45 units east of it.                     *)

\* frames of the run
CrowdTicks == 2

\* Math.random() streams of spawnFood(2): both items at (0, 0); one at
\* (0, 0) and one at (45, 0); both at (45, 0); one at (0, 0) and one at
\* (1.8, 0)
CrowdFoodStreams == {<<50>>, <<50, 50, 75, 50>>, <<75, 50>>, <<50, 50, 51, 50>>}

\* Math.random() streams of the relocations: to (0, 0), to (45, 0)
CrowdRelocationStreams == {<<50>>, <<75, 50>>}

\* frame deltas in milliseconds: a usual frame, a stall of 4.5 s in which a
\* speed of 0.01 carries a creature 0.9 units (halfway between the items at
\* (0, 0) and (1.8, 0)), a stall of 7.5 s in which it carries it 1.5 units
\* (onto the pickup circle of the point it left), and a stall of 225 s in
\* which it carries it 45 units
CrowdDeltas == {50, 4500, 7500, 225000}

\* what a brain answers on a frame: nothing, or full acceleration straight on
CrowdOutputs == {<<0, 0>>, <<0, OutScale>>}

CrowdInit == SysInitWith({1, 2}, {2}, {<<50>>}, CrowdFoodStreams, {<<50>>})

CrowdUpdate ==
    /\ ticks < CrowdTicks
    /\ UpdateWith(CrowdDeltas, CrowdOutputs, CrowdRelocationStreams)

CrowdNext == CrowdUpdate

SpecCrowd == CrowdInit /\ [][CrowdNext]_vars

(* Claims checked under Spec *)

\* the step is an update(dt) call
IsUpdateStep == lastOp'.op = "update" /\ ticks' = ticks + 1

\* C1: with populationSize >= 1, after construction and after any sequence of
\* update and nextGeneration calls, genetic.individuals and creatures hold
\* exactly populationSize entries each.
C1_PopulationSizeKept ==
    populationSize >= 1 =>
        /\ Len(individuals) = populationSize
        /\ Len(creatures) = populationSize

\* C1 witness: a population of two rebuilt by nextGeneration
C1_Witness ==
    /\ populationSize = 2
    /\ lastOp.op = "nextGeneration"
    /\ generation = 1
    /\ Len(creatures) = 2

\* C2: right after every spawning (construction, nextGeneration) every
\* Individual's fitness is 0, and no update call lowers an Individual's
\* fitness.
C2_FitnessZeroThenNonDecreasing ==
    /\ [](lastOp.op \in {"construct", "nextGeneration"} =>
             \A i \in 1..Len(individuals) : individuals[i].fitness = 0)
    /\ [][IsUpdateStep =>
             \A i \in 1..Len(individuals) :
                 individuals'[i].fitness >= individuals[i].fitness]_vars

\* C2 witness: a nextGeneration that followed a consumption (its selection
\* was not empty) has reset the fitness
C2_Witness ==
    /\ lastOp.op = "nextGeneration"
    /\ lastGen.calls >= 1
    /\ lastGen.given # <<>>
    /\ \E i \in 1..Len(lastGen.before) : lastGen.before[i].fitness >= 1
    /\ \A i \in 1..Len(individuals) : individuals[i].fitness = 0

\* C3: the food pool always holds foodCount items and every item is active.
C3_FoodPoolKept ==
    /\ Len(foods) = foodCount
    /\ \A i \in 1..Len(foods) : foods[i].active

\* C3 witness: an update in which an item was consumed and moved elsewhere
C3_Witness ==
    /\ lastOp.op = "update"
    /\ \E e \in 1..Len(lastOp.eaten) : lastOp.eaten[e].from # lastOp.eaten[e].to
    /\ foodCount = 1

\* creature number k (1-based) is within the pickup radius of the only item
\* (by its double, when the distance reads exactly 1.5)
StartsInRadius(k) ==
    LET d2 == Dist2(foods[1], creatures[k].logic.x, creatures[k].logic.y)
    IN d2 < 150 * 150 \/ (d2 = 150 * 150 /\ k \in lastOp'.near)

\* the update gave the only item the position sampled by the last consumption,
\* and creature number k made a consumption
RelocatedBy(k) ==
    /\ \E e \in 1..Len(lastOp'.eaten) :
          lastOp'.eaten[e].creature = creatures[k].index /\ lastOp'.eaten[e].food = 0
    /\ <<foods'[1].x, foods'[1].z>> = lastOp'.eaten[Len(lastOp'.eaten)].to

\* C4 as stated: in an update with one food item, a creature that starts
\* within the pickup radius ends with fitness + 1, the item resampled, and
\* energy exactly 30 higher.
C4_EnergyUpByThirty ==
    [][(IsUpdateStep /\ foodCount = 1) =>
          \A k \in 1..Len(creatures) :
              StartsInRadius(k) =>
                  /\ creatures'[k].fitness = creatures[k].fitness + 1
                  /\ RelocatedBy(k)
                  /\ creatures'[k].logic.energy = creatures[k].logic.energy + 3000000]_vars

\* C4 amended: in an update with one food item, the first creature (in array
\* order) that starts within the pickup radius ends with fitness + 1, the
\* item resampled, and energy higher by 30 minus the cost of the tick,
\* 0.02 + 0.002 * |speed after the tick|.
C4_EnergyUpByThirtyMinusCost ==
    [][(IsUpdateStep /\ foodCount = 1) =>
          \A k \in 1..Len(creatures) :
              (StartsInRadius(k) /\ \A j \in 1..(k - 1) : ~StartsInRadius(j)) =>
                  /\ creatures'[k].fitness = creatures[k].fitness + 1
                  /\ RelocatedBy(k)
                  /\ creatures'[k].logic.energy =
                        creatures[k].logic.energy + 3000000
                        - (2000 + (2 * Abs(creatures'[k].logic.speed)) \div 1000)]_vars

\* C4 witness: an update of a population of two in which a moving creature
\* consumed the only item, which went elsewhere
C4_Witness ==
    /\ lastOp.op = "update"
    /\ foodCount = 1
    /\ populationSize = 2
    /\ \E e \in 1..Len(lastOp.eaten) :
          /\ lastOp.eaten[e].from # lastOp.eaten[e].to
          /\ \E k \in 1..Len(creatures) :
                /\ creatures[k].index = lastOp.eaten[e].creature
                /\ creatures[k].fitness = 1
                /\ creatures[k].logic.speed # 0

---------------------------------------------------------------------------
(* Claims checked under SpecExhaust *)

\* C5: once a creature's energy is <= 0 (it reads <= 0 and the update that
\* brought it there has hidden the creature), an update leaves its position,
\* angle, speed and energy unchanged and does not raise its fitness.
C5_ExhaustedCreatureFrozen ==
    [][IsUpdateStep =>
          \A k \in 1..Len(creatures) :
              (creatures[k].logic.energy <= 0 /\ ~creatures[k].visible) =>
                  /\ creatures'[k].logic = creatures[k].logic
                  /\ creatures'[k].fitness <= creatures[k].fitness]_vars

---------------------------------------------------------------------------
(* Claims checked under SpecGenetic *)

\* the step is a Genetic.nextGeneration call given an empty selection
IsEmptySelectionStep ==
    /\ lastGen'.calls = lastGen.calls + 1
    /\ lastGen'.given = <<>>

\* C6: for populationSize >= 1, Genetic.nextGeneration given an empty
\* selection breeds from exactly 3 indices, each in [0, populationSize),
\* leaves exactly populationSize individuals and adds exactly 1 to generation.
C6_EmptySelectionFallback ==
    [][(IsEmptySelectionStep /\ populationSize >= 1) =>
          /\ ~lastGen'.threw
          /\ Len(lastGen'.pool) = 3
          /\ \A j \in 1..Len(lastGen'.pool) : lastGen'.pool[j] \in 0..(populationSize - 1)
          /\ Len(individuals') = populationSize
          /\ generation' = generation + 1]_vars

\* C6 witness: a population of two after a nextGeneration given no index,
\* whose fallback drew both individuals
C6_Witness ==
    /\ populationSize = 2
    /\ lastGen.calls >= 1
    /\ lastGen.given = <<>>
    /\ ~lastGen.threw
    /\ \E i, j \in 1..Len(lastGen.pool) : lastGen.pool[i] # lastGen.pool[j]
    /\ generation >= 1

\* C8: every gene of an array that went through mutate calls, and every gene
\* of every Individual after initRandom and nextGeneration calls, is in [0, 1].
C8_GenesInUnitInterval ==
    /\ \A g \in 1..Len(scratch.genes) : scratch.genes[g] \in 0..100
    /\ \A i \in 1..Len(individuals) :
          \A g \in 1..Len(individuals[i].genes) : individuals[i].genes[g] \in 0..100

\* C8 witness: after two mutate calls one gene sits on the upper clamp and
\* another on the lower one
C8_Witness ==
    /\ scratch.calls = 2
    /\ \E g, h \in 1..Len(scratch.genes) : scratch.genes[g] = 100 /\ scratch.genes[h] = 0

---------------------------------------------------------------------------
(* Claims checked under SpecNoFood *)

\* what C7 promises of a state of the run
NoFoodRunIsSafe ==
    /\ \A k \in 1..Len(creatures) : creatures[k].fitness = 0
    /\ \A i \in 1..Len(individuals) : individuals[i].fitness = 0
    /\ lastGen.calls >= 1 => lastGen.given = <<>>
    /\ ~thrown
    /\ Len(individuals) = populationSize
    /\ Len(creatures) = populationSize

\* C7 as stated: with foodCount = 0, through updates and up to 50
\* nextGeneration calls, no fitness exceeds 0, every selection is empty,
\* nothing throws and the population size is unchanged.
C7_NoFoodRunSafe == foodCount = 0 => NoFoodRunIsSafe

\* C7 amended: the same, for populationSize >= 1.
C7_NoFoodRunSafeNonEmpty == (foodCount = 0 /\ populationSize >= 1) => NoFoodRunIsSafe

\* C7 witness: the 50th generation change of a population of two, followed
\* by an update
C7_Witness ==
    /\ foodCount = 0
    /\ populationSize = 2
    /\ lastGen.calls = 50
    /\ generation = 50
    /\ lastOp.op = "update"

---------------------------------------------------------------------------
(* Claims checked under SpecNN *)

\* the step is a compute call on network n with an input array of the wrong length
IsBadComputeStep(n) ==
    /\ nnLast'.op = "compute"
    /\ nnLast'.net = n
    /\ Len(nnLast'.inputs) # networks[n].nbInput - 1

\* C9: compute given an input array of the wrong length answers nbOutput
\* zeros, calls console.error, does not throw and leaves every weight as it
\* was.
C9_BadInputLength ==
    [][\A n \in 1..Len(networks) :
          IsBadComputeStep(n) =>
              /\ Len(nnLast'.outputs) = networks[n].nbOutput
              /\ \A k \in 1..Len(nnLast'.outputs) : nnLast'.outputs[k] = 0
              /\ Len(nnLast'.errors) >= 1
              /\ ~thrown'
              /\ arrays' = arrays
              /\ networks' = networks]_vars

\* C9 witness: a network with two outputs was given too many inputs
C9_Witness ==
    /\ nnLast.op = "compute"
    /\ networks[nnLast.net].nbOutput = 2
    /\ Len(nnLast.inputs) > networks[nnLast.net].nbInput - 1
    /\ nnLast.outputs = <<0, 0>>
    /\ Len(nnLast.errors) = 1

\* the arrays an object with fields w1 and w2 holds: both matrices and their rows
ArraysOf(o) ==
    {o.w1, o.w2} \cup {arrays[o.w1][j] : j \in 1..Len(arrays[o.w1])}
    \cup {arrays[o.w2][j] : j \in 1..Len(arrays[o.w2])}

\* C10: no two of the networks and exported genomes hold a common matrix or
\* row.
C10_NoSharedWeights ==
    /\ \A a, b \in 1..Len(networks) :
          a # b => ArraysOf(networks[a]) \cap ArraysOf(networks[b]) = {}
    /\ \A a \in 1..Len(networks), g \in 1..Len(genomes) :
          ArraysOf(networks[a]) \cap ArraysOf(genomes[g]) = {}

---------------------------------------------------------------------------
(* The host (main.js).  animate() and the Next Gen click handler are        *)
(* callbacks of one event loop: a callback is started only when no other   *)
(* is on the stack, and a button press made meanwhile waits.  update() is  *)
(* followed creature by creature and nextGeneration() in its two halves,   *)
(* Genetic.nextGeneration then createGeneration.  Times are in ms.          *)

\* rebuilds and button presses of a run
MaxHostGenerations == 2
MaxPresses == 1

\* this.generationDuration = 30 (seconds)
GenerationDuration == 30000

\* the population and the food pool of the run
HostPopulationSizes == {30}
HostFoodCounts == {40}

\* clock.getDelta() of a frame
HostDeltas == {10000, 20000}

\* the brains' answer, and the Math.random() streams of the run
HostOutputs == <<0, 0>>
HostGeneStream == <<0, 75>>
HostPosStream == <<75, 50, 50>>

\* the event loop starts a callback only when the stack is empty
StackFree(a, c) == a = "idle" /\ c = "idle"

\* "if (this.generationElapsed >= this.generationDuration)"
TimerFires(elapsed) == elapsed >= GenerationDuration

HostInit ==
    SysInitWith(HostPopulationSizes, HostFoodCounts, {<<50>>}, {<<50>>}, {HostPosStream})

\* the user presses Next Gen: the click event is queued
PressButton ==
    /\ clicks.made < MaxPresses
    /\ lastGen.calls < MaxHostGenerations
    /\ clicks' = [made |-> clicks.made + 1, pending |-> clicks.pending + 1]
    /\ UNCHANGED <<animPc, clickPc, loopAt, pass, host>>
    /\ UNCHANGED <<genVars, sysVars, nnVars, opVars, sideVars>>

\* animate() is started for a frame: getDelta, then creatureSystem.update(delta)
\* is entered
AnimateStart ==
    /\ StackFree(animPc, clickPc)
    /\ lastGen.calls < MaxHostGenerations
    /\ \E delta \in HostDeltas : pass' = [dt |-> delta, k |-> 0, eaten |-> <<>>]
    /\ animPc' = "update"
    /\ loopAt' = 1
    /\ UNCHANGED <<clickPc, clicks, host>>
    /\ UNCHANGED <<genVars, sysVars, nnVars, opVars, sideVars>>

\* one turn of update()'s forEach
AnimateUpdateStep ==
    /\ animPc = "update"
    /\ loopAt <= Len(creatures)
    /\ \E r \in TurnChoices([creatures |-> creatures, foods |-> foods,
                             individuals |-> individuals,
                             k |-> pass.k, eaten |-> pass.eaten,
                             nonpos |-> {}, near |-> {}, tie |-> -1, picks |-> <<>>],
                            terrain, loopAt, pass.dt, HostOutputs, HostPosStream) :
          /\ creatures' = r.creatures
          /\ foods' = r.foods
          /\ individuals' = r.individuals
          /\ pass' = [pass EXCEPT !.k = r.k, !.eaten = r.eaten]
    /\ loopAt' = loopAt + 1
    /\ UNCHANGED <<animPc, clickPc, clicks, host>>
    /\ UNCHANGED <<populationSize, geneCount, generation, scratch, lastGen, thrown,
                   foodCount, terrain, ticks, lastOp>>
    /\ UNCHANGED <<nnVars, opVars, sideVars>>

\* update() has returned: generationElapsed += delta and the test of the timer
AnimateTimer ==
    /\ animPc = "update"
    /\ loopAt > Len(creatures)
    /\ host' = [host EXCEPT !.generationElapsed = @ + pass.dt]
    /\ animPc' = IF TimerFires(host.generationElapsed + pass.dt) THEN "breed" ELSE "idle"
    /\ ticks' = ticks + 1
    /\ lastOp' = [op |-> "update", eaten |-> pass.eaten]
    /\ UNCHANGED <<clickPc, loopAt, pass, clicks>>
    /\ UNCHANGED <<genVars, foodCount, terrain, creatures, foods>>
    /\ UNCHANGED <<nnVars, opVars, sideVars>>

\* mutant: the click handler is started whatever is on the stack
ClickStartAnytime ==
    /\ lastOp.op # "construct"
    /\ clicks.pending > 0
    /\ clicks' = [clicks EXCEPT !.pending = @ - 1]
    /\ clickPc' = "breed"
    /\ UNCHANGED <<animPc, loopAt, pass, host>>
    /\ UNCHANGED <<genVars, sysVars, nnVars, opVars, sideVars>>

\* the click handler is started; the constructor ends with its own call of
\* animate(), so the first frame is made before any click is handled
ClickStart ==
    /\ StackFree(animPc, clickPc)
    /\ lastOp.op # "construct"
    /\ clicks.pending > 0
    /\ clicks' = [clicks EXCEPT !.pending = @ - 1]
    /\ clickPc' = "breed"
    /\ UNCHANGED <<animPc, loopAt, pass, host>>
    /\ UNCHANGED <<genVars, sysVars, nnVars, opVars, sideVars>>

\* first half of creatureSystem.nextGeneration(): the selection and
\* Genetic.nextGeneration; a throw ends the callback
Breed(pc, pcAfter) ==
    /\ pc = "breed"
    /\ \E sel \in {Selection(creatures)} :
          IF NextGenerationThrows(individuals, sel, HostGeneStream)
          THEN /\ thrown' = TRUE
               /\ lastGen' = [calls |-> lastGen.calls + 1, given |-> sel, threw |-> TRUE]
               /\ pcAfter = "idle"
               /\ UNCHANGED <<individuals, generation>>
          ELSE \E r \in {NextGenerationPop(individuals, populationSize, geneCount, sel,
                                           HostGeneStream)} :
                  /\ individuals' = r.individuals
                  /\ generation' = generation + 1
                  /\ lastGen' = [calls |-> lastGen.calls + 1, given |-> sel, threw |-> FALSE,
                                 pool |-> r.pool, elite |-> r.elite, heap |-> r.heap, ids |-> r.ids,
                                 before |-> individuals]
                  /\ pcAfter = "spawn"
                  /\ UNCHANGED thrown
    /\ UNCHANGED <<populationSize, geneCount, scratch>>
    /\ UNCHANGED <<sysVars, nnVars, opVars, sideVars, loopAt, pass, clicks, host>>

\* mutant: the callback leaves generationElapsed as it is
SpawnKeepsElapsed(pc, pcAfter) ==
    /\ pc = "spawn"
    /\ creatures' = CreateGenerationCreatures(terrain, individuals, HostPosStream)
    /\ individuals' = CreateGenerationIndividuals(individuals)
    /\ ticks' = 0
    /\ lastOp' = [op |-> "nextGeneration"]
    /\ host' = [host EXCEPT !.currentGeneration = @ + 1]
    /\ pcAfter = "idle"
    /\ UNCHANGED <<populationSize, geneCount, generation, scratch, lastGen, thrown>>
    /\ UNCHANGED <<foodCount, terrain, foods, loopAt, pass, clicks>>
    /\ UNCHANGED <<nnVars, opVars, sideVars>>

\* second half: createGeneration, then currentGeneration++ and
\* generationElapsed = 0 in the callback
Spawn(pc, pcAfter) ==
    /\ pc = "spawn"
    /\ creatures' = CreateGenerationCreatures(terrain, individuals, HostPosStream)
    /\ individuals' = CreateGenerationIndividuals(individuals)
    /\ ticks' = 0
    /\ lastOp' = [op |-> "nextGeneration"]
    /\ host' = [generationElapsed |-> 0, currentGeneration |-> host.currentGeneration + 1]
    /\ pcAfter = "idle"
    /\ UNCHANGED <<populationSize, geneCount, generation, scratch, lastGen, thrown>>
    /\ UNCHANGED <<foodCount, terrain, foods, loopAt, pass, clicks>>
    /\ UNCHANGED <<nnVars, opVars, sideVars>>

AnimateBreed == Breed(animPc, animPc') /\ UNCHANGED clickPc
AnimateSpawn == Spawn(animPc, animPc') /\ UNCHANGED clickPc
ClickBreed == Breed(clickPc, clickPc') /\ UNCHANGED animPc
ClickSpawn == Spawn(clickPc, clickPc') /\ UNCHANGED animPc

HostNext ==
    \/ PressButton
    \/ AnimateStart
    \/ AnimateUpdateStep
    \/ AnimateTimer
    \/ AnimateBreed
    \/ AnimateSpawn
    \/ ClickStart
    \/ ClickBreed
    \/ ClickSpawn

SpecHost == HostInit /\ [][HostNext]_vars

---------------------------------------------------------------------------
(* The operators of Genetic called one at a time by a caller: the          *)
(* constructor, setPopulationSize, crossover and mutate.  crossover and    *)
(* mutate read geneCount and Math.random() only.                            *)

OpGeneCounts == {1, 2, 10}

\* Math.random() streams behind the gene arrays and the mutate calls
OpStreams == {<<50>>, <<0, 75>>, <<75, 50, 0>>}

\* the result of the Math.random() call of crossover
CutDraws == {0, 25, 50, 75, 99}

\* gene arrays a caller holds
OpGeneArrays(GC) == {[g \in 1..GC |-> Rnd(s, g - 1)] : s \in OpStreams}

\* new Genetic(populationSize, geneCount)
OpInit ==
    /\ populationSize \in PopulationSizes
    /\ geneCount \in OpGeneCounts
    /\ \E s \in OpStreams : individuals = InitRandom(populationSize, geneCount, s)
    /\ generation = 0
    /\ scratch = [calls |-> 0, genes |-> <<>>]
    /\ lastGen = NoGen
    /\ thrown = FALSE
    /\ NoSystem
    /\ NoNetworks
    /\ NoHost
    /\ NoOpCall
    /\ NoSide

\* setPopulationSize(n)
OpSetPopulationSize ==
    /\ \E n \in PopulationSizes, s \in OpStreams :
          /\ populationSize' = n
          /\ individuals' = InitRandom(n, geneCount, s)
          /\ opCall' = [op |-> "setPopulationSize", n |-> n]
    /\ UNCHANGED <<geneCount, generation, scratch, lastGen, thrown>>
    /\ UNCHANGED <<sysVars, nnVars, hostVars, sideVars>>

\* child = crossover(a, b)
OpCrossover ==
    /\ \E a \in OpGeneArrays(geneCount), b \in OpGeneArrays(geneCount), r \in CutDraws :
          opCall' = [op |-> "crossover", a |-> a, b |-> b,
                     cut |-> CrossoverCut(geneCount, r),
                     child |-> Crossover(a, b, geneCount, r),
                     atZero |-> CrossoverAt(a, b, geneCount, 0),
                     atGeneCount |-> CrossoverAt(a, b, geneCount, geneCount)]
    /\ UNCHANGED <<genVars, sysVars, nnVars, hostVars, sideVars>>

\* out = mutate(genes, rate, amount): the caller's array is the one array of
\* the heap when mutate is entered.  The call is recorded with the content of
\* that array before and after it, the array returned and its content.
OpMutate ==
    /\ \E genes \in OpGeneArrays(geneCount), rate \in MutateRates,
          amount \in MutateAmounts, s \in OpStreams :
          \E r \in {MutateArray(<<genes>>, 1, rate, amount, s, 0)} :
             opCall' = [op |-> "mutate", given |-> genes, rate |-> rate, amount |-> amount,
                        givenId |-> 1, outId |-> r.out,
                        out |-> r.heap[r.out], after |-> r.heap[1]]
    /\ UNCHANGED <<genVars, sysVars, nnVars, hostVars, sideVars>>

OpNext == OpSetPopulationSize \/ OpCrossover \/ OpMutate

SpecOperators == OpInit /\ [][OpNext]_vars

---------------------------------------------------------------------------
---------------------------------------------------------------------------
(* Genetic.nextGeneration followed child by child: the parents drawn, the *)
(* cut and the child before and after mutate.                               *)

\* nextGeneration calls of a run
MaxBreedGenerations == 1

BreedPopulationSizes == {1, 2, 3}

\* new Genetic(populationSize, geneCount)
BreedInit ==
    /\ populationSize \in BreedPopulationSizes
    /\ geneCount \in OpGeneCounts
    /\ \E s \in OpStreams : individuals = InitRandom(populationSize, geneCount, s)
    /\ generation = 0
    /\ scratch = [calls |-> 0, genes |-> <<>>]
    /\ lastGen = NoGen
    /\ thrown = FALSE
    /\ NoSystem
    /\ NoNetworks
    /\ NoHost
    /\ NoOpCall
    /\ NoSide

\* nextGeneration(selectedIndices), with the children it made on the way
BreedNextGeneration ==
    /\ lastGen.calls < MaxBreedGenerations
    /\ \E sel \in Selections(Len(individuals)), s \in OpStreams :
          /\ GeneticNextGenerationStep(sel, s)
          /\ opCall' = IF NextGenerationThrows(individuals, sel, s)
                       THEN [op |-> "nextGeneration", threw |-> TRUE]
                       ELSE [op |-> "nextGeneration", threw |-> FALSE,
                             children |-> NextGenerationChildren(individuals, populationSize,
                                                                 geneCount, sel, s)]
    /\ UNCHANGED <<populationSize, geneCount, scratch>>
    /\ UNCHANGED <<sysVars, nnVars, hostVars, sideVars>>

BreedNext == BreedNextGeneration

SpecBreeding == BreedInit /\ [][BreedNext]_vars

---------------------------------------------------------------------------
(* Two CreatureSystems built with configs that differ in mutationRate only *)
(* and run side by side: the same frames, the same brains' answers and the  *)
(* same Math.random() results reach both.                                   *)

\* generation changes and frames per generation of a run
MaxTwinGenerations == 1
MaxTwinTicks == 1

\* config.mutationRate of a system, in hundredths (the default is 0.08)
TwinRates == {0, 8, 50, 100}

\* Object.assign({populationSize: 24, mutationRate: 0.08, worldSize: 200,
\* foodCount: 40}, config) for a config that gives all but worldSize
SystemConfig(P, F, rate) ==
    [populationSize |-> P, mutationRate |-> rate, worldSize |-> WorldSize, foodCount |-> F]

\* new CreatureSystem(scene, terrainGenerator, config): of the config,
\* Genetic is given populationSize (and the literal 10) and spawnFood
\* foodCount
NewSystem(cfg, t, sg, sf, sc) ==
    LET inds == InitRandom(cfg.populationSize, CreatureGeneCount, sg)
    IN [config |-> cfg,
        individuals |-> CreateGenerationIndividuals(inds),
        creatures |-> CreateGenerationCreatures(t, inds, sc),
        foods |-> SpawnFood(t, cfg.foodCount, sf),
        generation |-> 0,
        ticks |-> 0,
        last |-> [op |-> "construct"]]

\* update(dt) of system sys: the systems the pass can leave, each with the
\* sides its readings fell on
SystemUpdate(sys, t, dt, outs, s) ==
    {[sys EXCEPT !.creatures = r.creatures,
                 !.foods = r.foods,
                 !.individuals = r.individuals,
                 !.ticks = @ + 1,
                 !.last = [op |-> "update", nonpos |-> r.nonpos, near |-> r.near,
                           picks |-> r.picks]] :
        r \in UpdatePass(sys.creatures, sys.foods, sys.individuals, t, dt, outs, s)}

\* what a transition would make if mutate were given config.mutationRate
RECURSIVE FillPopulationAtRate(_, _, _, _, _, _, _)
FillPopulationAtRate(rate, newPop, pool, P, GC, s, k) ==
    IF ~(Len(newPop) < P) THEN newPop
    ELSE LET A == At(pool, RndIndex(s, k, Len(pool)))
             B == At(pool, RndIndex(s, k + 1, Len(pool)))
             child == Crossover(A, B, GC, Rnd(s, k + 2))
             m == Mutate(child, rate, NextGenMutationAmount, s, k + 3)
         IN FillPopulationAtRate(rate, Append(newPop, m.genes), pool, P, GC, s, m.k)

\* mutant: the transition mutates with the rate of the config
SystemTransitionAtConfigRate(sys, sel, s) ==
    LET sel2 == SelOrFallback(sys.individuals, sel, s)
        pool == [j \in 1..Len(sel2) |-> At(sys.individuals, sel2[j]).genes]
        eliteIdx == RndIndex(s, FallbackDraws(sel), Len(pool))
        newPop == FillPopulationAtRate(sys.config.mutationRate, <<At(pool, eliteIdx)>>, pool,
                                       sys.config.populationSize, CreatureGeneCount,
                                       s, FallbackDraws(sel) + 1)
    IN [individuals |-> [j \in 1..Len(newPop) |-> [genes |-> newPop[j]]]]

\* "this.genetic.nextGeneration(selection)" in system sys: the Genetic object
\* holds config.populationSize and nothing else of the config
SystemTransition(sys, sel, s) ==
    NextGenerationPop(sys.individuals, sys.config.populationSize, CreatureGeneCount, sel, s)

\* nextGeneration() of system sys
SystemNextGeneration(sys, t, sg, sc) ==
    LET sel == Selection(sys.creatures)
        r == SystemTransition(sys, sel, sg)
    IN [sys EXCEPT !.individuals = CreateGenerationIndividuals(r.individuals),
                   !.creatures = CreateGenerationCreatures(t, r.individuals, sc),
                   !.generation = @ + 1,
                   !.ticks = 0,
                   !.last = [op |-> "nextGeneration", given |-> sel, stream |-> sg,
                             before |-> sys.individuals,
                             children |-> NextGenerationChildren(
                                              sys.individuals, sys.config.populationSize,
                                              CreatureGeneCount, sel, sg)]]

\* the two systems are built
TwinInit ==
    /\ NoGenetic
    /\ NoSystem
    /\ NoNetworks
    /\ NoHost
    /\ NoOpCall
    /\ brains = <<>>
    /\ \E a \in TwinRates, b \in TwinRates, sg \in SysGeneStreams :
          /\ a < b
          /\ twins = <<NewSystem(SystemConfig(2, 1, a), terrain, sg, <<50>>, <<50>>),
                       NewSystem(SystemConfig(2, 1, b), terrain, sg, <<50>>, <<50>>)>>

\* one frame reaches both systems; equal readings are equal doubles, and fall
\* on the same side in both
TwinUpdate ==
    /\ twins[1].ticks < MaxTwinTicks
    /\ \E dt \in {50}, outs \in [1..2 -> BrainOutputs], s \in RelocationStreams :
          \E a \in SystemUpdate(twins[1], terrain, dt, outs, s),
             b \in SystemUpdate(twins[2], terrain, dt, outs, s) :
             /\ a.last = b.last
             /\ twins' = <<a, b>>
    /\ UNCHANGED <<genVars, sysVars, nnVars, hostVars, opVars, brains>>

\* both systems change generation
TwinNextGeneration ==
    /\ twins[1].generation < MaxTwinGenerations
    /\ \E sg \in SysGeneStreams, sc \in {<<50>>} :
          twins' = [i \in 1..2 |-> SystemNextGeneration(twins[i], terrain, sg, sc)]
    /\ UNCHANGED <<genVars, sysVars, nnVars, hostVars, opVars, brains>>

TwinNext == TwinUpdate \/ TwinNextGeneration

SpecTwins == TwinInit /\ [][TwinNext]_vars

---------------------------------------------------------------------------
(* The brains of the creatures across a generation change.  Every creature *)
(* is built with a NeuralNetwork(5, 4, 2); a host may put the exported     *)
(* genome of a creature's brain on its Individual as brainGenome, which    *)
(* createGeneration hands to the Creature constructor when it is there.     *)

\* generation changes of a run, and genomes a host puts on Individuals
MaxBrainGenerations == 1
MaxKeptGenomes == 1

\* "new NeuralNetwork(5, 4, 2, brainGenome)"
BrainShape == <<5, 4, 2>>

\* Math.random() streams seen by the constructor of one brain
BrainStreams == {<<0, 75, 50>>, <<50, 0>>}

BrainPopulationSizes == {1, 2}

\* "ind.brainGenome" as createGeneration reads it: 0 stands for undefined,
\* which the default parameter of the Creature constructor turns into null
BrainGenomeOf(ind) == IF "brainGenome" \in DOMAIN ind THEN ind.brainGenome ELSE 0

\* mutant: a brain is built on the genome exported last, when there is one
NewBrainFromKeptGenome(arr, gs, genomeId, s) ==
    IF Len(gs) > 0
    THEN [arrays |-> arr, net |-> NewNetworkFrom(BrainShape, gs[Len(gs)])]
    ELSE NewRandomNetwork(arr, BrainShape, s)

\* the brain of new Creature(genes, genome): random weights for a null
\* genome, the matrices of the genome otherwise
NewBrain(arr, gs, genomeId, s) ==
    IF genomeId = 0
    THEN NewRandomNetwork(arr, BrainShape, s)
    ELSE [arrays |-> arr, net |-> NewNetworkFrom(BrainShape, gs[genomeId])]

\* the brains createGeneration builds, one per individual in order; ss[i]
\* is the stream seen by the constructor of brain i
RECURSIVE CreateBrainsFrom(_, _, _, _)
CreateBrainsFrom(st, gs, inds, ss) ==
    IF Len(st.brains) = Len(inds) THEN st
    ELSE LET i == Len(st.brains) + 1
             r == NewBrain(st.arrays, gs, BrainGenomeOf(inds[i]), ss[i])
         IN CreateBrainsFrom([arrays |-> r.arrays,
                              networks |-> Append(st.networks, r.net),
                              brains |-> Append(st.brains, Len(st.networks) + 1)],
                             gs, inds, ss)

CreateBrains(arr, nets, gs, inds, ss) ==
    CreateBrainsFrom([arrays |-> arr, networks |-> nets, brains |-> <<>>], gs, inds, ss)

\* "ind.fitness = 0" on an Individual, which keeps what else it holds
WithFitnessZero(ind) ==
    IF "brainGenome" \in DOMAIN ind
    THEN [genes |-> ind.genes, fitness |-> 0, brainGenome |-> ind.brainGenome]
    ELSE [genes |-> ind.genes, fitness |-> 0]

\* new CreatureSystem(scene, terrainGenerator, {populationSize, foodCount: 0})
BrainsInit ==
    /\ populationSize \in BrainPopulationSizes
    /\ geneCount = CreatureGeneCount
    /\ foodCount = 0
    /\ terrain \in SysTerrains
    /\ foods = <<>>
    /\ \E sg \in SysGeneStreams, ss \in [1..populationSize -> BrainStreams] :
          LET inds == InitRandom(populationSize, geneCount, sg)
              b == CreateBrains(<<>>, <<>>, <<>>, inds, ss)
          IN /\ creatures = CreateGenerationCreatures(terrain, inds, <<50>>)
             /\ individuals = [i \in 1..Len(inds) |-> WithFitnessZero(inds[i])]
             /\ arrays = b.arrays
             /\ networks = b.networks
             /\ brains = b.brains
    /\ genomes = <<>>
    /\ nnLast = [op |-> "none"]
    /\ writes = 0
    /\ generation = 0
    /\ scratch = [calls |-> 0, genes |-> <<>>]
    /\ lastGen = NoGen
    /\ thrown = FALSE
    /\ ticks = 0
    /\ lastOp = [op |-> "construct"]
    /\ NoHost
    /\ NoOpCall
    /\ twins = <<>>

\* a host keeps the brain of creature k for later:
\* genetic.individuals[k].brainGenome = creatures[k].logic.brain.exportGenome()
BrainsKeepGenome ==
    /\ Len(genomes) < MaxKeptGenomes
    /\ \E k \in 1..Len(creatures) :
          LET r == ExportGenome(arrays, networks[brains[k]])
          IN /\ arrays' = r.arrays
             /\ genomes' = Append(genomes, r.genome)
             /\ individuals' = [individuals EXCEPT ![k] =
                                   [genes |-> individuals[k].genes,
                                    fitness |-> individuals[k].fitness,
                                    brainGenome |-> Len(genomes) + 1]]
             /\ nnLast' = [op |-> "exportGenome", net |-> brains[k], genome |-> Len(genomes) + 1]
    /\ UNCHANGED <<populationSize, geneCount, generation, scratch, lastGen, thrown>>
    /\ UNCHANGED <<sysVars, networks, writes, brains, twins>>
    /\ UNCHANGED <<hostVars, opVars>>

\* nextGeneration(): selection, Genetic.nextGeneration, createGeneration with
\* the brains it builds
BrainsNextGeneration ==
    /\ lastGen.calls < MaxBrainGenerations
    /\ \E sg \in SysGeneStreams, ss \in [1..populationSize -> BrainStreams] :
          \E sel \in {Selection(creatures)} :
             \E r \in {NextGenerationPop(individuals, populationSize, geneCount, sel, sg)} :
                \E b \in {CreateBrains(arrays, networks, genomes, r.individuals, ss)} :
                   /\ generation' = generation + 1
                   /\ lastGen' = [calls |-> lastGen.calls + 1, given |-> sel, threw |-> FALSE,
                                  pool |-> r.pool, elite |-> r.elite, heap |-> r.heap, ids |-> r.ids,
                                  before |-> individuals, brainsBefore |-> brains,
                                  streams |-> ss]
                   /\ creatures' = CreateGenerationCreatures(terrain, r.individuals, <<50>>)
                   /\ individuals' = [i \in 1..Len(r.individuals) |->
                                         WithFitnessZero(r.individuals[i])]
                   /\ arrays' = b.arrays
                   /\ networks' = b.networks
                   /\ brains' = b.brains
    /\ ticks' = 0
    /\ lastOp' = [op |-> "nextGeneration"]
    /\ UNCHANGED <<populationSize, geneCount, scratch, thrown, foodCount, terrain, foods>>
    /\ UNCHANGED <<genomes, nnLast, writes, twins>>
    /\ UNCHANGED <<hostVars, opVars>>

BrainsNext == BrainsKeepGenome \/ BrainsNextGeneration

SpecBrains == BrainsInit /\ [][BrainsNext]_vars

(* Claims C11 to C20 *)

\* what a nearest-food read from creature number k's place returns on the
\* pool as it stands before the frame: the distance kept in distanceFood
ReadOnSettledPool(k) ==
    LET target == GetNearestFood(foods, creatures[k].logic.x, creatures[k].logic.y, -1)
    IN IF target.found THEN target.dist ELSE 10000

\* C11: in an update pass every creature's nearest-food read sees the pool
\* as it stood before the pass, so the distance each creature is left with
\* is the one to the nearest item of that pool.
C11_ReadsSeeSettledPool ==
    [][IsUpdateStep =>
          \A k \in 1..Len(creatures) :
              creatures'[k].logic.distanceFood = ReadOnSettledPool(k)]_vars

\* the step is a CreatureSystem.nextGeneration() call
IsNextGenerationStep == lastOp'.op = "nextGeneration" /\ lastGen'.calls = lastGen.calls + 1

\* C13: nextGeneration() gives Genetic.nextGeneration exactly the indices of
\* the Individuals with fitness > 0, and leaves one fresh creature per new
\* Individual: energy 100, speed 0, angle 0, fitness 0.
C13_SelectionThenFreshCreatures ==
    [][IsNextGenerationStep =>
          /\ {lastGen'.given[j] : j \in 1..Len(lastGen'.given)}
                = {i - 1 : i \in {h \in 1..Len(individuals) : individuals[h].fitness > 0}}
          /\ Len(lastGen'.given)
                = Cardinality({h \in 1..Len(individuals) : individuals[h].fitness > 0})
          /\ Len(creatures') = Len(individuals')
          /\ \A k \in 1..Len(creatures') :
                /\ creatures'[k].logic.energy = 100 * 100000
                /\ creatures'[k].logic.speed = 0
                /\ creatures'[k].logic.angle = 0
                /\ creatures'[k].fitness = 0
                /\ creatures'[k].logic.genes = individuals'[k].genes]_vars

\* C13 witness: of two creatures only the first had eaten; after the
\* rebuild both are fresh
C13_Witness ==
    /\ lastOp.op = "nextGeneration"
    /\ populationSize = 2
    /\ lastGen.calls = 1
    /\ lastGen.given = <<0>>
    /\ lastGen.before[1].fitness >= 1
    /\ lastGen.before[2].fitness = 0
    /\ Len(creatures) = 2
    /\ \A k \in 1..Len(creatures) : creatures[k].logic.energy = 100 * 100000

\* consumptions creature number k made in the update
MealsOf(k) ==
    Cardinality({e \in 1..Len(lastOp'.eaten) : lastOp'.eaten[e].creature = k - 1})

\* C14: between operations creature number i has index i and the fitness of
\* Individual i, and an update raises both by exactly the number of
\* consumptions the creature made in it.
C14_CreatureMatchesIndividual ==
    /\ [](\A k \in 1..Len(creatures) :
             /\ creatures[k].index = k - 1
             /\ k <= Len(individuals)
             /\ creatures[k].fitness = individuals[k].fitness)
    /\ [][IsUpdateStep =>
             \A k \in 1..Len(creatures) :
                 /\ creatures'[k].fitness = creatures[k].fitness + MealsOf(k)
                 /\ individuals'[k].fitness = individuals[k].fitness + MealsOf(k)]_vars

\* C14 witness: after an update the first of two creatures has eaten once
\* and the second has not
C14_Witness ==
    /\ lastOp.op = "update"
    /\ Len(creatures) = 2
    /\ Len(lastOp.eaten) = 1
    /\ lastOp.eaten[1].creature = 0
    /\ creatures[1].fitness = 1
    /\ individuals[1].fitness = 1
    /\ creatures[2].fitness = 0

\* an update pass is partway through its creature loop
UpdateInFlight == animPc = "update" /\ loopAt \in 1..Len(creatures)

\* a generation rebuild is in progress, in either callback
RebuildInFlight == animPc \in {"breed", "spawn"} \/ clickPc \in {"breed", "spawn"}

\* C12: in the host a rebuild (timer or button) never runs while an update
\* pass is partway through its loop, no pass starts during a rebuild, and
\* the two callbacks are never on the stack together.
C12_RebuildNeverInsideUpdate ==
    /\ ~(UpdateInFlight /\ RebuildInFlight)
    /\ ~(animPc # "idle" /\ clickPc # "idle")

\* C12 witness: the button was pressed while the pass had visited the first
\* of its creatures and not the others; the press waits
C12_Witness ==
    /\ animPc = "update"
    /\ loopAt = 2
    /\ Len(creatures) > 2
    /\ clicks.pending = 1
    /\ clickPc = "idle"

\* C15: the timer of animate() starts a rebuild exactly when 60 seconds of
\* frame delta have accumulated since the last transition.
C15_TimerFiresAtSixtySeconds ==
    [][(animPc = "update" /\ animPc' # "update") =>
          (animPc' = "breed" <=> host'.generationElapsed >= 60000)]_vars

\* C16: after the constructor and after setPopulationSize the population has
\* populationSize individuals, each with geneCount genes in [0, 1] and a
\* fitness equal to 0.
C16_InitRandomFitnessZero ==
    /\ Len(individuals) = populationSize
    /\ \A i \in 1..Len(individuals) :
          /\ Len(individuals[i].genes) = geneCount
          /\ \A g \in 1..geneCount : individuals[i].genes[g] \in 0..100
          /\ "fitness" \in DOMAIN individuals[i]
          /\ individuals[i].fitness = 0

\* the step is a crossover call
IsCrossoverStep == opCall'.op = "crossover" /\ opCall' # opCall

\* C17: crossover returns geneCount genes, a's before the cut and b's from
\* the cut on.
C17_CrossoverSinglePoint ==
    [][IsCrossoverStep =>
          /\ Len(opCall'.child) = geneCount
          /\ \A i \in 0..(geneCount - 1) :
                opCall'.child[i + 1] = IF i < opCall'.cut THEN opCall'.a[i + 1]
                                                         ELSE opCall'.b[i + 1]]_vars

\* C17 witness: two genomes of 10 genes that differ everywhere, cut at 5
C17_Witness ==
    /\ opCall.op = "crossover"
    /\ geneCount = 10
    /\ opCall.cut = 5
    /\ \A i \in 1..10 : opCall.a[i] # opCall.b[i]
    /\ \A i \in 1..5 : opCall.child[i] = opCall.a[i]
    /\ \A i \in 6..10 : opCall.child[i] = opCall.b[i]

\* C18: a crossover whose cut is 0 returns a child equal to b, and one whose
\* cut is geneCount a child equal to a; so does the loop of crossover when it
\* is run on the two arrays of the call with the cut 0 and the cut geneCount.
C18_CutZeroAndCutGeneCount ==
    [][IsCrossoverStep =>
          /\ opCall'.cut = 0 => opCall'.child = opCall'.b
          /\ opCall'.cut = geneCount => opCall'.child = opCall'.a
          /\ opCall'.atZero = opCall'.b
          /\ opCall'.atGeneCount = opCall'.a]_vars

\* C18 witness: a call on two arrays of 10 genes that differ, the cut drawn is
\* 0 and the child is b and not a
C18_Witness ==
    /\ opCall.op = "crossover"
    /\ geneCount = 10
    /\ opCall.cut = 0
    /\ opCall.a # opCall.b
    /\ opCall.child = opCall.b
    /\ opCall.child # opCall.a
    /\ opCall.atGeneCount = opCall.a

\* the step is a mutate call
IsMutateStep == opCall'.op = "mutate" /\ opCall' # opCall

\* C19: mutate with rate 0 returns an array equal to the one given, whatever
\* the amount; at any rate the array returned is another array than the one
\* given, and the one given holds after the call what it held before.
C19_MutateRateZeroIdentity ==
    [][IsMutateStep =>
          /\ opCall'.rate = 0 => opCall'.out = opCall'.given
          /\ opCall'.outId # opCall'.givenId
          /\ opCall'.after = opCall'.given]_vars

\* C19 witness: a call with rate 0 and amount 2 on 10 genes, among them
\* genes away from both clamps
C19_Witness ==
    /\ opCall.op = "mutate"
    /\ geneCount = 10
    /\ opCall.rate = 0
    /\ opCall.amount = 200
    /\ \E g \in 1..10 : opCall.given[g] = 75
    /\ opCall.out = opCall.given
    /\ opCall.outId # opCall.givenId
    /\ opCall.after = opCall.given

\* the step is a Genetic.nextGeneration call that returned
IsGeneticNextGenerationStep == lastGen'.calls = lastGen.calls + 1 /\ ~lastGen'.threw

\* C20: after Genetic.nextGeneration the first individual has the genes of a
\* member of the breeding pool of the previous population, in an array that
\* is none of the arrays the previous population held.
C20_EliteIsCopyOfPoolMember ==
    [][IsGeneticNextGenerationStep =>
          /\ \E j \in 1..Len(lastGen'.pool) :
                individuals'[1].genes = individuals[lastGen'.pool[j] + 1].genes
          /\ individuals'[1].genes = lastGen'.heap[lastGen'.ids[1]]
          /\ \A i \in 1..Len(individuals) : lastGen'.ids[1] # i]_vars

\* C20 witness: two individuals with different genes were selected and the
\* second was drawn as elite
C20_Witness ==
    /\ lastGen.calls >= 1
    /\ ~lastGen.threw
    /\ lastGen.given = <<0, 1>>
    /\ lastGen.before[1].genes # lastGen.before[2].genes
    /\ lastGen.elite = 1
    /\ individuals[1].genes = lastGen.before[2].genes
    /\ lastGen.heap[lastGen.ids[1]] = lastGen.heap[2]
    /\ lastGen.ids[1] > Len(lastGen.before)

---------------------------------------------------------------------------
(* Claims C21 to C30 *)

\* C21: after construction, after every update(dt) and after every
\* nextGeneration, each creature's logical position satisfies
\* |x| <= worldSize/2 - 2 and |y| <= worldSize/2 - 2.
C21_CreaturesInsideArena ==
    \A k \in 1..Len(creatures) :
        /\ Abs(creatures[k].logic.x) <= (200 \div 2 - 2) * 100
        /\ Abs(creatures[k].logic.y) <= (200 \div 2 - 2) * 100

\* C21 witness: an update left a moving creature on the border x = 98, which
\* no spawn reaches (spawns lie within 90)
C21_Witness ==
    /\ lastOp.op = "update"
    /\ \E k \in 1..Len(creatures) :
          /\ creatures[k].logic.x = 9800
          /\ creatures[k].logic.speed > 0

\* sample number j (from 1) of a call that reads stream s from its start
SampleNo(s, j) ==
    <<((Rnd(s, 2 * (j - 1)) - 50) * 2 * 9000) \div 100,
      ((Rnd(s, 2 * (j - 1) + 1) - 50) * 2 * 9000) \div 100>>

\* sample number j is not a mountain position
SampleIsFree(s, j) == BiomeAt(terrain, SampleNo(s, j)[1], SampleNo(s, j)[2]) # "mountain"

\* C22: getRandomPositionOnTerrain takes at most 15 samples and returns the
\* first one whose biome is not 'mountain', or the 15th one, mountain or
\* not, when the first 14 are all mountain; it always returns a position.
C22_SamplingBounded ==
    lastOp.op = "sample" =>
        LET s == lastOp.stream
            pos == lastOp.pos
        IN /\ pos.attempts \in 1..15
           /\ <<pos.x, pos.z>> = SampleNo(s, pos.attempts)
           /\ \A j \in 1..(pos.attempts - 1) : ~SampleIsFree(s, j)
           /\ pos.attempts < 15 => SampleIsFree(s, pos.attempts)
           /\ pos.x \in -9000..9000 /\ pos.z \in -9000..9000

\* C22 witness: on the map that is all mountain the 15th sample was
\* returned, a mountain position
C22_Witness ==
    /\ lastOp.op = "sample"
    /\ terrain = "peaks"
    /\ lastOp.pos.attempts = 15
    /\ lastOp.pos.biome = "mountain"
    /\ <<lastOp.pos.x, lastOp.pos.z>> = SampleNo(lastOp.stream, 15)

\* C24: in each update the heading changes by at most 0.1 and the speed by
\* at most 0.01 in absolute value, each by exactly the brain's answer times
\* 0.1 and 0.01; nothing else changes the speed, so n updates answered 1
\* leave a speed of 0.01 * n.
C24_TurnAndSpeedSteps ==
    [][IsUpdateStep =>
          \A k \in 1..Len(creatures) :
              LET before == creatures[k].logic
                  after == creatures'[k].logic
                  o == lastOp'.outs[k]
              IN /\ o[1] \in -1000..1000 /\ o[2] \in -1000..1000
                 /\ Abs(after.angle - before.angle) <= 1000
                 /\ Abs(after.speed - before.speed) <= 1000
                 /\ after.angle = before.angle + o[1]
                 /\ after.speed = before.speed + o[2]]_vars

\* C24 witness: after three updates answered 1 the speed is 0.03, and the
\* creature stands on the border of the arena
C24_Witness ==
    /\ lastOp.op = "update"
    /\ ticks = 3
    /\ creatures[1].logic.speed = 3 * 1000
    /\ creatures[1].logic.angle = 3 * 1000
    /\ creatures[1].logic.x = 9800

\* before the frame creature number k is within the pickup radius of item
\* number f (both from 1; by its double, when the distance reads exactly 1.5)
NearItem(k, f) ==
    LET d2 == (foods[f].x - creatures[k].logic.x) * (foods[f].x - creatures[k].logic.x)
              + (foods[f].z - creatures[k].logic.y) * (foods[f].z - creatures[k].logic.y)
    IN d2 < 150 * 150 \/ (d2 = 150 * 150 /\ k \in lastOp'.near)

\* C25: in an update a creature that reads the pool as the frame found it
\* (no creature before it consumed) consumes if and only if, at its position
\* before moving, some item is within the pickup radius; what it consumes
\* is an item within the radius of that position.
C25_PickupDecidedBeforeMove ==
    [][IsUpdateStep =>
          \A k \in 1..Len(creatures) :
              (\A j \in 1..(k - 1) : MealsOf(j) = 0) =>
                  /\ MealsOf(k) >= 1 <=> \E f \in 1..Len(foods) : NearItem(k, f)
                  /\ \A e \in 1..Len(lastOp'.eaten) :
                        lastOp'.eaten[e].creature = k - 1 =>
                            /\ NearItem(k, lastOp'.eaten[e].food + 1)
                            /\ lastOp'.eaten[e].from =
                                  <<foods[lastOp'.eaten[e].food + 1].x,
                                    foods[lastOp'.eaten[e].food + 1].z>>]_vars

\* C25 witness: a creature that started on the item at (0, 0) consumed it
\* while moving 45 units away, and did not consume the item at (45, 0) on
\* which it arrived
C25_Witness ==
    /\ lastOp.op = "update"
    /\ ticks = 1
    /\ Len(creatures) = 1
    /\ Len(lastOp.eaten) = 1
    /\ lastOp.eaten[1].food = 0
    /\ lastOp.eaten[1].from = <<0, 0>>
    /\ <<creatures[1].logic.x, creatures[1].logic.y>> = <<4500, 0>>
    /\ <<foods[2].x, foods[2].z>> = <<4500, 0>>
    /\ creatures[1].fitness = 1

\* C26: in one update each creature consumes at most one item, however many
\* lie within the pickup radius: its fitness rises by the number of its
\* consumptions, 0 or 1, and its energy by 30 per consumption less the cost
\* of the tick.
C26_OneMealPerTick ==
    [][IsUpdateStep =>
          \A k \in 1..Len(creatures) :
              /\ MealsOf(k) \in {0, 1}
              /\ creatures'[k].fitness - creatures[k].fitness = MealsOf(k)
              /\ creatures'[k].logic.energy =
                    creatures[k].logic.energy + MealsOf(k) * 3000000
                    - (2000 + (2 * Abs(creatures'[k].logic.speed)) \div 1000)]_vars

\* C26 witness: a creature standing on two items consumed the first one
\* only; the second is still under it
C26_Witness ==
    /\ lastOp.op = "update"
    /\ ticks = 1
    /\ Len(creatures) = 1
    /\ creatures[1].logic.speed = 0
    /\ <<creatures[1].logic.x, creatures[1].logic.y>> = <<0, 0>>
    /\ Len(lastOp.eaten) = 1
    /\ lastOp.eaten[1].food = 0
    /\ lastOp.eaten[1].from = <<0, 0>>
    /\ <<foods[2].x, foods[2].z>> = <<0, 0>>
    /\ creatures[1].fitness = 1
    /\ creatures[1].logic.energy = 10000000 + 3000000 - 2000

\* entries of the update's consumption log that are about item f (from 0)
EntriesOn(f) == {e \in 1..Len(lastOp'.eaten) : lastOp'.eaten[e].food = f}

\* the place the frame found item f (from 0) at
PlaceOf(f) == <<foods[f + 1].x, foods[f + 1].z>>

\* C27 as stated: when two creatures are both within the pickup radius of an
\* item as the frame finds it, the higher-indexed one is not credited for
\* that item at that place.
C27_OnlyLowerIndexedCredited ==
    [][IsUpdateStep =>
          \A f \in 0..(Len(foods) - 1) :
              \A j \in 1..Len(creatures) :
                  \A k \in (j + 1)..Len(creatures) :
                      (NearItem(j, f + 1) /\ NearItem(k, f + 1)) =>
                          \A e \in EntriesOn(f) :
                              ~(/\ lastOp'.eaten[e].creature = k - 1
                                /\ lastOp'.eaten[e].from = PlaceOf(f))]_vars

\* C27 amended: creatures are served in index order and a consumption
\* relocates the item before the next creature reads the pool, so each
\* placement of an item is consumed once: the log of an update is in
\* increasing creature order, an item's first consumption is at the place
\* the frame found it and each later one at the place the consumption before
\* it sampled, and the item ends where its last consumption put it.  When
\* two creatures are both within the pickup radius of an item as the frame
\* finds it and the higher-indexed one is credited for it as the frame found
\* it, the lower-indexed one was credited before, for another item, consumed
\* at a place no farther from it; when the lower-indexed one is the first of
\* the array it is credited first, for an item that is nearest to it.
C27_PlacementCreditedOnce ==
    [][IsUpdateStep =>
          /\ \A e1, e2 \in 1..Len(lastOp'.eaten) :
                e1 < e2 => lastOp'.eaten[e1].creature < lastOp'.eaten[e2].creature
          /\ \A f \in 0..(Len(foods) - 1) :
                \A e \in EntriesOn(f) :
                    IF \A d \in EntriesOn(f) : d >= e
                    THEN lastOp'.eaten[e].from = PlaceOf(f)
                    ELSE LET prev == CHOOSE d \in EntriesOn(f) :
                                        d < e /\ \A c \in EntriesOn(f) : c < e => c <= d
                         IN lastOp'.eaten[e].from = lastOp'.eaten[prev].to
          /\ \A f \in 0..(Len(foods) - 1) :
                <<foods'[f + 1].x, foods'[f + 1].z>> =
                    IF EntriesOn(f) = {} THEN PlaceOf(f)
                    ELSE lastOp'.eaten[CHOOSE e \in EntriesOn(f) :
                                          \A d \in EntriesOn(f) : d <= e].to
          /\ \A f \in 0..(Len(foods) - 1) :
                \A j \in 1..Len(creatures) :
                    \A k \in (j + 1)..Len(creatures) :
                        (NearItem(j, f + 1) /\ NearItem(k, f + 1)) =>
                            \A e \in EntriesOn(f) :
                                (/\ lastOp'.eaten[e].creature = k - 1
                                 /\ \A d \in EntriesOn(f) : d >= e) =>
                                    \E d \in 1..(e - 1) :
                                        /\ lastOp'.eaten[d].creature = j - 1
                                        /\ lastOp'.eaten[d].food # f
                                        /\ Dist2([x |-> lastOp'.eaten[d].from[1],
                                                  z |-> lastOp'.eaten[d].from[2]],
                                                 creatures[j].logic.x, creatures[j].logic.y)
                                              <= Dist2(foods[f + 1], creatures[j].logic.x,
                                                       creatures[j].logic.y)
          /\ \A f \in 0..(Len(foods) - 1) :
                \A k \in 2..Len(creatures) :
                    (NearItem(1, f + 1) /\ NearItem(k, f + 1)) =>
                        /\ lastOp'.eaten[1].creature = 0
                        /\ lastOp'.eaten[1].from = PlaceOf(lastOp'.eaten[1].food)
                        /\ \A g \in 1..Len(foods) :
                              Dist2(foods[lastOp'.eaten[1].food + 1],
                                    creatures[1].logic.x, creatures[1].logic.y)
                                 <= Dist2(foods[g], creatures[1].logic.x,
                                          creatures[1].logic.y)]_vars

\* C27 witness: two creatures stood on the point (0, 0) where both items
\* lay; the first was credited for the first item, which went to (45, 0),
\* and the second for the second item, where the frame had found it
C27_Witness ==
    /\ lastOp.op = "update"
    /\ ticks = 1
    /\ Len(creatures) = 2
    /\ \A k \in 1..2 : <<creatures[k].logic.x, creatures[k].logic.y>> = <<0, 0>>
    /\ \A k \in 1..2 : creatures[k].logic.speed = 0
    /\ Len(lastOp.eaten) = 2
    /\ lastOp.eaten[1] = [creature |-> 0, food |-> 0, from |-> <<0, 0>>, to |-> <<4500, 0>>]
    /\ lastOp.eaten[2].creature = 1
    /\ lastOp.eaten[2].food = 1
    /\ lastOp.eaten[2].from = <<0, 0>>
    /\ creatures[1].fitness = 1
    /\ creatures[2].fitness = 1

\* C28: the cut drawn by crossover lies in 0..geneCount-1, so the last gene
\* of a child is the last gene of the second parent; every individual of a
\* new generation but the first is mutate's copy of such a child.
C28_LastGeneFromSecondParent ==
    [][IsGeneticNextGenerationStep =>
          LET log == opCall'.children
          IN /\ Len(log) = Len(individuals') - 1
             /\ \A j \in 1..Len(log) :
                   LET A == individuals[lastGen'.pool[log[j].a + 1] + 1].genes
                       B == individuals[lastGen'.pool[log[j].b + 1] + 1].genes
                   IN /\ log[j].cut \in 0..(geneCount - 1)
                      /\ Len(log[j].child) = geneCount
                      /\ log[j].child[geneCount] = B[geneCount]
                      /\ \A i \in 1..geneCount :
                            log[j].child[i] = IF i - 1 < log[j].cut THEN A[i] ELSE B[i]
                      /\ individuals'[j + 1].genes = log[j].out]_vars

\* C28 witness: a child drawn from two parents whose last genes differ, with
\* the largest cut, took every gene but the last from its first parent
C28_Witness ==
    /\ opCall.op = "nextGeneration"
    /\ ~opCall.threw
    /\ geneCount = 2
    /\ \E j \in 1..Len(opCall.children) :
          LET c == opCall.children[j]
              A == lastGen.before[lastGen.pool[c.a + 1] + 1].genes
              B == lastGen.before[lastGen.pool[c.b + 1] + 1].genes
          IN /\ A[geneCount] # B[geneCount]
             /\ c.cut = geneCount - 1
             /\ c.child[geneCount] = B[geneCount]
             /\ c.child[1] = A[1]

\* the step is a generation change of the two systems
IsTwinTransition ==
    \A i \in 1..2 : twins'[i].generation = twins[i].generation + 1

\* C29: config.mutationRate has no effect on evolution.  Two systems that
\* differ in mutationRate only and see the same draws hold the same
\* population, creatures and food at every moment, and every individual a
\* transition makes after the first is mutate(child, 0.08, 0.12).
C29_MutationRateIgnored ==
    /\ [](/\ twins[1].config.mutationRate # twins[2].config.mutationRate
          /\ [twins[1].config EXCEPT !.mutationRate = 0]
                = [twins[2].config EXCEPT !.mutationRate = 0]
          /\ twins[1].individuals = twins[2].individuals
          /\ twins[1].creatures = twins[2].creatures
          /\ twins[1].foods = twins[2].foods)
    /\ [][IsTwinTransition =>
             \A i \in 1..2 :
                 LET log == twins'[i].last.children
                 IN /\ Len(log) = Len(twins'[i].individuals) - 1
                    /\ \A j \in 1..Len(log) :
                          twins'[i].individuals[j + 1].genes
                             = Mutate(log[j].child, 8, 12, twins'[i].last.stream, log[j].k).genes]_vars

\* C29 witness: systems with mutationRate 0 and 1 have changed generation
\* after a consumption, and the child was changed by mutate in both
C29_Witness ==
    /\ twins[1].config.mutationRate = 0
    /\ twins[2].config.mutationRate = 100
    /\ twins[1].generation = 1
    /\ twins[1].last.op = "nextGeneration"
    /\ twins[1].last.given # <<>>
    /\ \A i \in 1..2 :
          /\ twins[i].last.children[1].out # twins[i].last.children[1].child
          /\ twins[i].individuals[2].genes = twins[i].last.children[1].out

\* neither callback is on the stack: the host is between two callbacks
BetweenCallbacks == animPc = "idle" /\ clickPc = "idle"

\* a transition, automatic or manual, comes to its end in this step
TransitionEnds ==
    \/ animPc = "spawn" /\ animPc' = "idle"
    \/ clickPc = "spawn" /\ clickPc' = "idle"

\* C30: between callbacks, after any interleaving of frames and clicks,
\* currentGeneration = genetic.generation + 1 and generationElapsed is below
\* generationDuration; every transition, automatic or manual, adds 1 to
\* both counters and sets generationElapsed to 0.
C30_CounterFollowsGeneration ==
    /\ [](BetweenCallbacks =>
             /\ host.currentGeneration = generation + 1
             /\ host.generationElapsed >= 0
             /\ host.generationElapsed < 30000)
    /\ [][TransitionEnds =>
             /\ host'.generationElapsed = 0
             /\ host'.currentGeneration = host.currentGeneration + 1
             /\ host'.currentGeneration = generation' + 1]_vars

\* C30 witness: after one transition by the button and one by the timer the
\* counter shows 3 and Genetic.generation is 2
C30_Witness ==
    /\ BetweenCallbacks
    /\ clicks.made = 1
    /\ clicks.pending = 0
    /\ generation = 2
    /\ host.currentGeneration = 3
    /\ lastGen.calls = 2

\* the matrices and rows of network or genome o in the heap arr
ArraysIn(arr, o) ==
    {o.w1, o.w2} \cup {arr[o.w1][j] : j \in 1..Len(arr[o.w1])}
    \cup {arr[o.w2][j] : j \in 1..Len(arr[o.w2])}

\* C23: Genetic.nextGeneration carries no brain genome over: no Individual
\* it makes has a brainGenome, and every creature spawned after the
\* transition has a new brain whose matrices and rows were all allocated by
\* the transition and hold fresh random weights, whatever the brains and
\* kept genomes of the previous generation, the elite's included.
C23_BrainsNotInherited ==
    [][IsGeneticNextGenerationStep =>
          /\ \A i \in 1..Len(individuals') : ~("brainGenome" \in DOMAIN individuals'[i])
          /\ Len(brains') = Len(individuals')
          /\ \A a \in 1..Len(arrays) : arrays'[a] = arrays[a]
          /\ \A k \in 1..Len(brains') :
                LET net == networks'[brains'[k]]
                IN /\ brains'[k] > Len(networks)
                   /\ \A a \in ArraysIn(arrays', net) : a > Len(arrays)
                   /\ RowCopies(arrays', net.w1) =
                         [j \in 1..6 |-> [c \in 1..4 |->
                             Rnd(lastGen'.streams[k], (j - 1) * 4 + (c - 1)) * 40 - 2000]]
                   /\ RowCopies(arrays', net.w2) =
                         [j \in 1..4 |-> [c \in 1..2 |->
                             Rnd(lastGen'.streams[k], 24 + (j - 1) * 2 + (c - 1)) * 40 - 2000]]
          /\ \A k \in 1..Len(brains'), n \in 1..Len(networks) :
                ArraysIn(arrays', networks'[brains'[k]]) \cap ArraysIn(arrays', networks'[n]) = {}
          /\ \A k \in 1..Len(brains'), g \in 1..Len(genomes') :
                ArraysIn(arrays', networks'[brains'[k]]) \cap ArraysIn(arrays', genomes'[g]) = {}]_vars

\* C23 witness: the Individual drawn as elite had a kept brain genome; the
\* first Individual of the new generation has its genes and no genome, and
\* the first creature a brain of its own
C23_Witness ==
    /\ lastGen.calls = 1
    /\ lastOp.op = "nextGeneration"
    /\ Len(genomes) = 1
    /\ Len(brains) = 2
    /\ LET parent == lastGen.before[lastGen.pool[lastGen.elite + 1] + 1]
       IN /\ "brainGenome" \in DOMAIN parent
          /\ parent.brainGenome = 1
          /\ individuals[1].genes = parent.genes
          /\ DOMAIN individuals[1] = {"genes", "fitness"}
    /\ brains[1] \notin {lastGen.brainsBefore[k] : k \in 1..Len(lastGen.brainsBefore)}
    /\ networks[brains[1]].w1 # genomes[1].w1

=============================================================================
